---- MODULE Spec2Model ----
(***************************************************************************)
(* A model of the Madlan MCP property server (src/Madlan/src/mcp_server.py) *)
(* and of the data-preparation classifier of src/Madlan/install.py.         *)
(*                                                                          *)
(* Units.  Prices are NIS.  Room counts are tenths of a room (3.5 rooms is  *)
(* 35).  Distances stored on a record are hundredths of a kilometre, the    *)
(* precision round(d, 2) leaves them with (1.5 km is 150, the 999.0         *)
(* sentinel is 99900).  Geodesic distances are millimetres.  Match scores   *)
(* are tenths of a point, the precision round(s, 1) leaves them with.       *)
(* Dates are day numbers counted from 2025-01-01.                           *)
(***************************************************************************)
EXTENDS Integers, Sequences, FiniteSets, TLC

VARIABLES
    properties_df,   \* self.properties_df: the loaded dataset, a sequence of rows
    data_file,       \* what load_data found on disk: "present", "missing", "corrupt"
    data_loaded,     \* self.data_loaded
    clock,           \* the day datetime.now() falls on
    pc,              \* where main() is: "read", "handle", "write", "done"
    stdin_open,      \* FALSE once sys.stdin has reached end of input
    line,            \* the input line main() is working on
    response,        \* the response handle_request() returned, not yet printed
    inp,             \* the non-blank lines read so far, in order
    out,             \* the response lines printed so far, each with the line it answers
    searches,        \* how many times handle_request has called search_properties
    kwargs,          \* the arguments of the search_properties call under study
    result,          \* what that call returned
    score,           \* what calculate_madlan_match_score returned for one row
    nearest,         \* a get_nearest_amenities call and what it returned
    rating           \* a distance and the accessibility rating it was given

vars == <<properties_df, data_file, data_loaded, clock, pc, stdin_open, line, response,
          inp, out, searches, kwargs, result, score, nearest, rating>>

(***************************************************************************)
(* Bounds of the model.                                                     *)
(***************************************************************************)
MaxRows == 3      \* rows of a listings_enriched.csv
MaxLines == 2     \* non-blank input lines a run of main() reads
MaxGivenWithText == 2   \* optional arguments of a call that has a query text
MaxGiven == 3     \* optional arguments one search_properties call is given

(***************************************************************************)
(* Values pandas and Python give to what is absent.                         *)
(***************************************************************************)
NaN == -2000000000          \* a missing numeric cell (float nan)
None == "None"              \* Python's None where a string is expected
Null == "null"              \* JSON null, and what request.get("id") gives without an id

Min(a, b) == IF a <= b THEN a ELSE b
Max(a, b) == IF a >= b THEN a ELSE b

\* a < b as pandas and Python compare floats: FALSE when either side is nan
Lt(a, b) == a # NaN /\ b # NaN /\ a < b
Le(a, b) == a # NaN /\ b # NaN /\ a <= b
Ge(a, b) == a # NaN /\ b # NaN /\ a >= b

Range(s) == {s[i] : i \in 1..Len(s)}

RECURSIVE SeqSum(_)
SeqSum(s) == IF s = <<>> THEN 0 ELSE Head(s) + SeqSum(Tail(s))

(***************************************************************************)
(* Geodesic distances.  geopy's geodesic() is tabulated for the             *)
(* coordinates the model's rows lie at.                                     *)
(***************************************************************************)
\* lat/lon of the places used by the model's rows; "nan" is an absent lat/lon
Places == {"A", "B", "C", "D", "E", "F", "G"}
NoPlace == "nan"

\* calculate_nearest_facilities: HAIFA_SCHOOLS, in source order
HAIFA_SCHOOLS == <<"hadar", "nordau", "rambam", "arts">>
\* calculate_nearest_facilities: HAIFA_CLINICS, in source order
HAIFA_CLINICS == <<"maccabi-hadar", "clalit-vizhnitz", "leumit-neve-paz">>

\* geodesic(place, school).kilometers, in millimetres
\*   A = (32.811234, 34.991456)   B = (32.787, 34.999)   C = (32.787, 34.992)
\*   D = (32.768, 34.989)         E = (32.816, 35.002)
geodesic_school(place) ==
    CASE place = "A" -> <<893791, 124953, 1282397, 1429896>>
      [] place = "B" -> <<2387917, 2903378, 1500286, 3243360>>
      [] place = "C" -> <<2107407, 2811699, 1507555, 3432643>>
      [] place = "D" -> <<4132053, 4922343, 3629098, 5516448>>
      [] place = "E" -> <<1980036, 1086652, 1845996, 356620>>

\* geodesic(place, clinic).kilometers, in millimetres
geodesic_clinic(place) ==
    CASE place = "A" -> <<918455, 2922611, 2926120>>
      [] place = "B" -> <<2388411, 374400, 1082811>>
      [] place = "C" -> <<2101138, 402547, 1718670>>
      [] place = "D" -> <<4120398, 1999361, 3134219>>
      [] place = "E" -> <<2005727, 3475107, 2979188>>

\* round(km, 2) of a distance given in millimetres, as hundredths of a kilometre
Round2(mm) == (mm + 5000) \div 10000

\* the 999.0 the distance columns are initialised with
SENTINEL_KM == 99900

\* min(distances, key=distance): the first entry with the least distance
ArgMin(ds) == CHOOSE i \in 1..Len(ds) :
                 /\ \A j \in 1..Len(ds) : ds[i] <= ds[j]
                 /\ \A j \in 1..(i - 1) : ds[j] > ds[i]

(***************************************************************************)
(* The dataset.                                                             *)
(***************************************************************************)
Date(d) == [kind |-> "date", day |-> d]
NaT == [kind |-> "NaT", day |-> 0]                \* an empty publish_date cell
BadDate == [kind |-> "unparseable", day |-> 0]    \* text to_datetime() rejects

\* a classifier that takes a price of exactly 100,000 for a rent
ClassifyBoundaryToLet(price) ==
    IF price <= 100000 THEN "To Let" ELSE "For Sale"

\* install.py: classify_transaction_type
classify_transaction_type(price) ==
    IF price < 100000 THEN "To Let" ELSE "For Sale"

CsvRow(date, rooms, price, area, parking, elevator, balconies, place) ==
    [publish_date |-> date, property_rooms |-> rooms, property_price |-> price,
     property_builded_area |-> area,
     transaction_type |-> classify_transaction_type(price),
     bulletin_has_parking |-> parking, bulletin_has_elevator |-> elevator,
     bulletin_has_balconies |-> balconies, place |-> place]

\* The rows a listings_enriched.csv of the model is cut from.
CsvRows == <<
    CsvRow(Date(150), 40, 1290000, 100, FALSE, TRUE, TRUE, "A"),
    CsvRow(Date(160), 35, 8000, 105, TRUE, TRUE, TRUE, "B"),
    CsvRow(Date(400), 30, 1290000, 0, FALSE, FALSE, FALSE, "C"),
    CsvRow(NaT, 20, 100000, NaN, TRUE, FALSE, FALSE, NoPlace),
    CsvRow(BadDate, 50, 99999, 120, TRUE, FALSE, TRUE, "D"),
    CsvRow(Date(4000), 45, 2500000, 150, TRUE, TRUE, TRUE, "E"),
    \* the same listing a second time
    CsvRow(Date(4000), 45, 2500000, 150, TRUE, TRUE, TRUE, "E") >>

\* The files load_data can find: every run of 1..MaxRows consecutive rows.
CsvFiles == {SubSeq(CsvRows, i, j) :
                i \in 1..Len(CsvRows), j \in 1..Len(CsvRows)} \ {<<>>}
CsvFilesBounded == {f \in CsvFiles : Len(f) <= MaxRows}

\* calculate_nearest_facilities, for one row
nearest_facilities(row) ==
    IF row.place = NoPlace
    THEN [nearest_school_name |-> "Unknown",
          nearest_school_distance_km |-> SENTINEL_KM,
          nearest_clinic_name |-> "Unknown",
          nearest_clinic_distance_km |-> SENTINEL_KM]
    ELSE LET sd == geodesic_school(row.place)
             cd == geodesic_clinic(row.place)
             s == ArgMin(sd)
             c == ArgMin(cd)
         IN [nearest_school_name |-> HAIFA_SCHOOLS[s],
             nearest_school_distance_km |-> Round2(sd[s]),
             nearest_clinic_name |-> HAIFA_CLINICS[c],
             nearest_clinic_distance_km |-> Round2(cd[c])]

\* one row of properties_df: the csv row, its index label, its facility columns
Loaded(row, idx, fac) ==
    [index |-> idx,
     publish_date |-> row.publish_date, property_rooms |-> row.property_rooms,
     property_price |-> row.property_price,
     property_builded_area |-> row.property_builded_area,
     transaction_type |-> row.transaction_type,
     bulletin_has_parking |-> row.bulletin_has_parking,
     bulletin_has_elevator |-> row.bulletin_has_elevator,
     bulletin_has_balconies |-> row.bulletin_has_balconies,
     place |-> row.place,
     nearest_school_name |-> fac.nearest_school_name,
     nearest_school_distance_km |-> fac.nearest_school_distance_km,
     nearest_clinic_name |-> fac.nearest_clinic_name,
     nearest_clinic_distance_km |-> fac.nearest_clinic_distance_km]

\* calculate_nearest_facilities over the whole frame
calculate_nearest_facilities(csv) ==
    [i \in 1..Len(csv) |-> Loaded(csv[i], i - 1, nearest_facilities(csv[i]))]

FallbackRow(date, rooms, price, area, parking, elevator, balconies, place) ==
    [publish_date |-> date, property_rooms |-> rooms, property_price |-> price,
     property_builded_area |-> area, transaction_type |-> "For Sale",
     bulletin_has_parking |-> parking, bulletin_has_elevator |-> elevator,
     bulletin_has_balconies |-> balconies, place |-> place]

Facilities(sname, sdist, cname, cdist) ==
    [nearest_school_name |-> sname, nearest_school_distance_km |-> sdist,
     nearest_clinic_name |-> cname, nearest_clinic_distance_km |-> cdist]

\* create_fallback_data: the three built-in records
create_fallback_data == <<
    Loaded(FallbackRow(Date(88), 40, 1290000, 100, FALSE, TRUE, TRUE, "A"), 0,
           Facilities("nordau", 14, "carmel-clinic", 39)),
    Loaded(FallbackRow(Date(34), 35, 1590000, 68, TRUE, TRUE, FALSE, "F"), 1,
           Facilities("neve-shaanan", 8, "leumit-neve-paz", 12)),
    Loaded(FallbackRow(Date(14), 30, 1750000, 80, TRUE, FALSE, TRUE, "G"), 2,
           Facilities("max-shein", 5, "maccabi-hadar", 33)) >>

\* What load_data finds on disk: a csv, no csv, or a csv that read_csv rejects.
FileStates == [kind : {"present"}, rows : CsvFilesBounded]
                \cup {[kind |-> "missing", rows |-> <<>>],
                      [kind |-> "corrupt", rows |-> <<>>]}

\* a load_data whose except branch does not mark the data as loaded
LoadDataFailing(file) ==
    IF file.kind = "present"
    THEN [properties_df |-> calculate_nearest_facilities(file.rows),
          data_loaded |-> TRUE]
    ELSE [properties_df |-> create_fallback_data, data_loaded |-> file.kind = "missing"]

\* load_data: the frame it leaves in self.properties_df, and self.data_loaded
load_data(file) ==
    IF file.kind = "present"
    THEN [properties_df |-> calculate_nearest_facilities(file.rows),
          data_loaded |-> TRUE]
    ELSE \* the else branch (no file) and the except branch (read_csv raised)
         [properties_df |-> create_fallback_data, data_loaded |-> TRUE]

(***************************************************************************)
(* Text.  A query text is a string; "kw in text" is substring search and    *)
(* str.lower() maps A-Z to a-z.                                             *)
(***************************************************************************)
UpperCase == "ABCDEFGHIJKLMNOPQRSTUVWXYZ"
LowerCase == "abcdefghijklmnopqrstuvwxyz"

LowerChar(c) ==
    IF \E i \in 1..Len(UpperCase) : SubSeq(UpperCase, i, i) = c
    THEN LET i == CHOOSE k \in 1..Len(UpperCase) : SubSeq(UpperCase, k, k) = c
         IN SubSeq(LowerCase, i, i)
    ELSE c

RECURSIVE Lower(_)
Lower(s) == IF Len(s) = 0 THEN ""
            ELSE LowerChar(SubSeq(s, 1, 1)) \o Lower(SubSeq(s, 2, Len(s)))

\* kw in text
Contains(text, kw) ==
    \E i \in 1..(Len(text) - Len(kw) + 1) : SubSeq(text, i, i + Len(kw) - 1) = kw

\* any(kw in text for kw in kws)
AnyIn(kws, text) == \E k \in 1..Len(kws) : Contains(text, kws[k])

listing_indicators == <<
    "show me", "find me", "list", "properties", "apartments", "flats",
    "top", "best", "recommendations", "options", "listings",
    "search for", "looking for", "want to see" >>

data_indicators == <<
    "analyze", "analysis", "statistics", "stats", "average", "compare",
    "market data", "trends", "price analysis", "how many", "count",
    "overview", "summary", "what is", "tell me about" >>

\* amenity_patterns, in the dict's order
amenity_types == <<"schools", "medical", "transport">>

amenity_patterns(amenity_type) ==
    CASE amenity_type = "schools" ->
           <<"school", "schools", "education", "elementary", "high school",
             "kindergarten", "בית ספר", "תיכון", "חינוך">>
      [] amenity_type = "medical" ->
           <<"medical", "clinic", "hospital", "doctor", "health", "healthcare",
             "maccabi", "clalit", "leumit", "מכבי", "כללית", "לאומית", "רופא",
             "קליניקה">>
      [] amenity_type = "transport" ->
           <<"transport", "transportation", "bus", "train", "metro", "carmelit",
             "station", "public transport", "תחבורה", "אוטובוס", "רכבת">>

\* transaction_keywords, in the dict's order
transaction_types == <<"for_sale", "to_let">>

transaction_keywords(trans_type) ==
    CASE trans_type = "for_sale" ->
           <<"for sale", "buy", "purchase", "buying", "sale", "למכירה", "קנייה">>
      [] trans_type = "to_let" ->
           <<"to let", "rent", "rental", "renting", "lease", "להשכרה", "השכרה",
             "שכירות">>

(***************************************************************************)
(* Arguments.  A keyword argument is [has, v]: has is FALSE when the key is *)
(* absent, and v is then the zero of its type.                              *)
(***************************************************************************)
Absent(zero) == [has |-> FALSE, v |-> zero]
Given(v) == [has |-> TRUE, v |-> v]

\* kwargs.get(key) taken as a condition: present and not 0, "" or False
Truthy(arg, zero) == arg.has /\ arg.v # zero

\* s + [x], for a list kept as a sequence
Append1(s, x) == s \o <<x>>

\* a loop over amenity_patterns.items() that stops at the first category found
MentionedFirstOnly(query_text, k) ==
    LET hits == {j \in k..Len(amenity_types) :
                    AnyIn(amenity_patterns(amenity_types[j]), query_text)}
    IN IF hits = {} THEN <<>>
       ELSE <<amenity_types[CHOOSE j \in hits : \A i \in hits : j <= i]>>

RECURSIVE MentionedInText(_, _)
\* the loop over amenity_patterns.items(), from the k-th category on
MentionedInText(query_text, k) ==
    IF k > Len(amenity_types) THEN <<>>
    ELSE (IF AnyIn(amenity_patterns(amenity_types[k]), query_text)
          THEN <<amenity_types[k]>> ELSE <<>>)
         \o MentionedInText(query_text, k + 1)

\* a loop over transaction_keywords.items() without its break: the last match wins
DetectTransactionNoBreak(query_text, k) ==
    LET hits == {j \in k..Len(transaction_types) :
                    AnyIn(transaction_keywords(transaction_types[j]), query_text)}
    IN IF hits = {} THEN None
       ELSE IF transaction_types[CHOOSE j \in hits : \A i \in hits : j >= i] = "for_sale"
            THEN "For Sale" ELSE "To Let"

RECURSIVE DetectTransaction(_, _)
\* the loop over transaction_keywords.items(), from the k-th type on, with its break
DetectTransaction(query_text, k) ==
    IF k > Len(transaction_types) THEN None
    ELSE IF AnyIn(transaction_keywords(transaction_types[k]), query_text)
         THEN (IF transaction_types[k] = "for_sale" THEN "For Sale" ELSE "To Let")
         ELSE DetectTransaction(query_text, k + 1)

\* the query texts of the model
QueryTexts == {"", "show me flats for sale", "Apartments to RENT near schools",
               "average price", "buy or rent statistics", "flats near bus station",
               "compare the best apartments", "how many Clinics by train",
               "דירה להשכרה"}

\* lines 150, 188-203: what detect_query_intent_and_amenities reads off the text
TextIntent(text) ==
    LET query_text == Lower(text)
    IN [is_listing_query |-> AnyIn(listing_indicators, query_text),
        is_data_query |-> AnyIn(data_indicators, query_text),
        mentioned_amenities |-> MentionedInText(query_text, 1),
        detected_transaction |-> DetectTransaction(query_text, 1)]

\* TextIntent, evaluated once for each query text of the model
text_intent == [text \in QueryTexts |-> TextIntent(text)]

\* an intent detection in which a data indicator wins over a listing indicator
DetectDataFirst(search_params) ==
    LET t == text_intent[search_params.query_text]
        m0 == t.mentioned_amenities
        m1 == IF Truthy(search_params.near_schools, FALSE) /\ "schools" \notin Range(m0)
              THEN Append1(m0, "schools") ELSE m0
        mentioned_amenities ==
              IF Truthy(search_params.near_medical, FALSE) /\ "medical" \notin Range(m1)
              THEN Append1(m1, "medical") ELSE m1
    IN [format_mode |-> IF t.is_data_query /\ mentioned_amenities = <<>>
                        THEN "data" ELSE "listings",
        mentioned_amenities |-> mentioned_amenities,
        is_listing_query |-> t.is_listing_query,
        is_data_query |-> t.is_data_query,
        detected_transaction |-> t.detected_transaction]

\* detect_query_intent_and_amenities
detect_query_intent_and_amenities(search_params) ==
    LET t == text_intent[search_params.query_text]
        m0 == t.mentioned_amenities
        m1 == IF Truthy(search_params.near_schools, FALSE) /\ "schools" \notin Range(m0)
              THEN Append1(m0, "schools") ELSE m0
        mentioned_amenities ==
              IF Truthy(search_params.near_medical, FALSE) /\ "medical" \notin Range(m1)
              THEN Append1(m1, "medical") ELSE m1
    IN [format_mode |-> IF t.is_data_query /\ ~t.is_listing_query
                           /\ mentioned_amenities = <<>>
                        THEN "data" ELSE "listings",
        mentioned_amenities |-> mentioned_amenities,
        is_listing_query |-> t.is_listing_query,
        is_data_query |-> t.is_data_query,
        detected_transaction |-> t.detected_transaction]

(***************************************************************************)
(* Scoring.  The score is a sum of fractions; it is kept exact as a        *)
(* numerator over ScoreDen(n) until round(.., 1).                           *)
(***************************************************************************)
YEAR_DAYS == 365
EXP_SCALE == 1000

\* 50 * exp(-2 * d), in thousandths of a point, d in hundredths of a kilometre:
\* numpy's exp, tabulated for the distances the model's rows have
Exp50(d) ==
    CASE d = 5 -> 45242
      [] d = 8 -> 42607
      [] d = 12 -> 39331
      [] d = 14 -> 37789
      [] d = 36 -> 24338
      [] d = 150 -> 2489
      [] d = 151 -> 2440
      [] d = 363 -> 35

ScoreDen(n) == n * YEAR_DAYS * EXP_SCALE

\* a percentile that counts the rows whose cell is greater than x
CountGreater(frame, col, x) == Cardinality({i \in 1..Len(frame) : Lt(x, frame[i][col])})

\* (frame[col] < x).sum(): the rows whose cell is less than x
CountLess(frame, col, x) == Cardinality({i \in 1..Len(frame) : Lt(frame[i][col], x)})

\* round(num / den, 1) in tenths, ties to the even tenth
Round1(num, den) ==
    LET q == num \div den
        r == num % den
        t == (r * 10) \div den
        rem == (r * 10) % den
        low == q * 10 + t
    IN IF 2 * rem > den THEN low + 1
       ELSE IF 2 * rem = den /\ low % 2 = 1 THEN low + 1
       ELSE low

\* the recency bonus, as a numerator over ScoreDen(n)
RecencyNum(publish_date, now, n) ==
    CASE publish_date.kind = "date" ->
           \* max(0, 10 * (1 - days_old / 365))
           Max(0, 10 * (YEAR_DAYS - (now - publish_date.day)) * n * EXP_SCALE)
      [] publish_date.kind = "NaT" ->
           \* days_old is nan, and max(0, nan) is 0
           0
      [] publish_date.kind = "unparseable" ->
           \* to_datetime raises: the except branch adds 5
           5 * ScoreDen(n)

\* the context score, as a numerator over ScoreDen(n)
ContextNum(property_row, search_params, n) ==
    IF Truthy(search_params.near_schools, FALSE)
    THEN IF property_row.nearest_school_distance_km < SENTINEL_KM
         THEN Min(50 * ScoreDen(n),
                  Exp50(property_row.nearest_school_distance_km) * n * YEAR_DAYS)
         ELSE 0
    ELSE 25 * ScoreDen(n)

\* the metadata score, as a numerator over ScoreDen(n)
MetadataNum(property_row, all_properties_df, now) ==
    LET n == Len(all_properties_df)
        price_part ==
            IF n > 1
            THEN 15 * (n - CountLess(all_properties_df, "property_price",
                                     property_row.property_price))
                    * YEAR_DAYS * EXP_SCALE
            ELSE 0
        area_part ==
            IF Lt(0, property_row.property_builded_area)
            THEN 10 * CountLess(all_properties_df, "property_builded_area",
                                property_row.property_builded_area)
                    * YEAR_DAYS * EXP_SCALE
            ELSE 0
        features ==
            (IF property_row.bulletin_has_parking THEN 5 ELSE 0)
            + (IF property_row.bulletin_has_elevator THEN 5 ELSE 0)
            + (IF property_row.bulletin_has_balconies THEN 5 ELSE 0)
    IN price_part + area_part + features * ScoreDen(n)
       + RecencyNum(property_row.publish_date, now, n)

\* round(metadata_score + context_score, 1), before the final min(100, ..)
RawScore(property_row, search_params, all_properties_df, now) ==
    LET n == Len(all_properties_df)
    IN Round1(MetadataNum(property_row, all_properties_df, now)
                + ContextNum(property_row, search_params, n),
              ScoreDen(n))

\* a score returned without the final min(100, ..)
ScoreUnclamped(property_row, search_params, all_properties_df, now) ==
    RawScore(property_row, search_params, all_properties_df, now)

\* calculate_madlan_match_score: min(100, round(.., 1)), in tenths of a point
calculate_madlan_match_score(property_row, search_params, all_properties_df, now) ==
    Min(1000, RawScore(property_row, search_params, all_properties_df, now))

(***************************************************************************)
(* search_properties.                                                       *)
(***************************************************************************)
\* df[mask]: the rows that satisfy Keep, in order
SelectRows(df, Keep(_)) == SelectSeq(df, Keep)

\* f"{n:,}": a number with thousands separators
RECURSIVE Commas(_)
Commas(digits) ==
    IF Len(digits) <= 3 THEN digits
    ELSE Commas(SubSeq(digits, 1, Len(digits) - 3)) \o ","
         \o SubSeq(digits, Len(digits) - 2, Len(digits))

FormatThousands(n) == IF n < 0 THEN "-" \o Commas(ToString(-n)) ELSE Commas(ToString(n))

\* f"{rooms}" for a room count in tenths, an integral count being given as an int
FormatRooms(rooms) ==
    IF rooms % 10 = 0 THEN ToString(rooms \div 10)
    ELSE ToString(rooms \div 10) \o "." \o ToString(rooms % 10)

\* df[col].astype(str).str.lower() == 'true', for a cell that is a bool
FixBool(cell) == Lower(IF cell THEN "True" ELSE "False") = "true"

FixBooleanColumns(df) ==
    [i \in 1..Len(df) |->
        [df[i] EXCEPT !.bulletin_has_parking = FixBool(@),
                      !.bulletin_has_elevator = FixBool(@),
                      !.bulletin_has_balconies = FixBool(@)]]

\* One step of the filter pipeline: [df, filters] in, [df, filters] out.
Stage(df, filters) == [df |-> df, filters |-> filters]

\* if kwargs.get('transaction_type'): explicit transaction type
FilterExplicitTransaction(st, kw) ==
    IF Truthy(kw.transaction_type, "")
    THEN LET Keep(r) == r.transaction_type = kw.transaction_type.v
         IN Stage(SelectRows(st.df, Keep),
                  Append1(st.filters, "Transaction type: " \o kw.transaction_type.v))
    ELSE st

\* an auto-detected filter applied whether or not an explicit type is given
FilterDetectedTransactionAlways(st, kw, detected_transaction) ==
    IF detected_transaction # None
    THEN LET Keep(r) == r.transaction_type = detected_transaction
         IN Stage(SelectRows(st.df, Keep),
                  Append1(st.filters,
                          "Auto-detected: " \o detected_transaction \o " properties only"))
    ELSE st

\* if detected_transaction and not kwargs.get('transaction_type')
FilterDetectedTransaction(st, kw, detected_transaction) ==
    IF detected_transaction # None /\ ~Truthy(kw.transaction_type, "")
    THEN LET Keep(r) == r.transaction_type = detected_transaction
         IN Stage(SelectRows(st.df, Keep),
                  Append1(st.filters,
                          "Auto-detected: " \o detected_transaction \o " properties only"))
    ELSE st

\* if kwargs.get('max_price')
FilterMaxPrice(st, kw) ==
    IF Truthy(kw.max_price, 0)
    THEN LET Keep(r) == Le(r.property_price, kw.max_price.v)
         IN Stage(SelectRows(st.df, Keep),
                  Append1(st.filters,
                          "Max price: " \o FormatThousands(kw.max_price.v) \o " NIS"))
    ELSE st

\* if kwargs.get('min_price')
FilterMinPrice(st, kw) ==
    IF Truthy(kw.min_price, 0)
    THEN LET Keep(r) == Ge(r.property_price, kw.min_price.v)
         IN Stage(SelectRows(st.df, Keep),
                  Append1(st.filters,
                          "Min price: " \o FormatThousands(kw.min_price.v) \o " NIS"))
    ELSE st

\* if kwargs.get('rooms')
FilterRooms(st, kw) ==
    IF Truthy(kw.rooms, 0)
    THEN LET Keep(r) == Ge(r.property_rooms, kw.rooms.v)
         IN Stage(SelectRows(st.df, Keep),
                  Append1(st.filters, "Min rooms: " \o FormatRooms(kw.rooms.v)))
    ELSE st

NEAR_SCHOOLS_KM == 150
NEAR_MEDICAL_KM == 200

\* a near-schools filter that reads the clinic column
FilterNearSchoolsByClinic(st, kw) ==
    IF Truthy(kw.near_schools, FALSE)
    THEN LET Keep(r) == Le(r.nearest_clinic_distance_km, NEAR_SCHOOLS_KM)
         IN Stage(SelectRows(st.df, Keep),
                  Append1(st.filters, "Near schools (<=1.5km)"))
    ELSE st

\* if kwargs.get('near_schools')
FilterNearSchools(st, kw) ==
    IF Truthy(kw.near_schools, FALSE)
    THEN LET Keep(r) == Le(r.nearest_school_distance_km, NEAR_SCHOOLS_KM)
         IN Stage(SelectRows(st.df, Keep),
                  Append1(st.filters, "Near schools (<=1.5km)"))
    ELSE st

\* a near-medical filter that leaves no description behind
FilterNearMedicalSilent(st, kw) ==
    IF Truthy(kw.near_medical, FALSE)
    THEN LET Keep(r) == Le(r.nearest_clinic_distance_km, NEAR_MEDICAL_KM)
         IN Stage(SelectRows(st.df, Keep), st.filters)
    ELSE st

\* if kwargs.get('near_medical')
FilterNearMedical(st, kw) ==
    IF Truthy(kw.near_medical, FALSE)
    THEN LET Keep(r) == Le(r.nearest_clinic_distance_km, NEAR_MEDICAL_KM)
         IN Stage(SelectRows(st.df, Keep),
                  Append1(st.filters, "Near medical (<=2km)"))
    ELSE st

\* if kwargs.get('has_parking') / 'has_elevator' / 'has_balcony'
FilterFeatures(st, kw) ==
    LET KeepP(r) == r.bulletin_has_parking = TRUE
        KeepE(r) == r.bulletin_has_elevator = TRUE
        KeepB(r) == r.bulletin_has_balconies = TRUE
        s1 == IF Truthy(kw.has_parking, FALSE)
              THEN Stage(SelectRows(st.df, KeepP),
                         Append1(st.filters, "Must have parking"))
              ELSE st
        s2 == IF Truthy(kw.has_elevator, FALSE)
              THEN Stage(SelectRows(s1.df, KeepE),
                         Append1(s1.filters, "Must have elevator"))
              ELSE s1
    IN IF Truthy(kw.has_balcony, FALSE)
       THEN Stage(SelectRows(s2.df, KeepB), Append1(s2.filters, "Must have balcony"))
       ELSE s2

\* search_properties, lines 270-329: the filtered frame and the filter list
FilterPipeline(df0, kw) ==
    LET intent_data == detect_query_intent_and_amenities(kw)
        s0 == Stage(FixBooleanColumns(df0), <<>>)
        s1 == FilterExplicitTransaction(s0, kw)
        s2 == FilterDetectedTransaction(s1, kw, intent_data.detected_transaction)
        s3 == FilterMaxPrice(s2, kw)
        s4 == FilterMinPrice(s3, kw)
        s5 == FilterRooms(s4, kw)
        s6 == FilterNearSchools(s5, kw)
        s7 == FilterNearMedical(s6, kw)
    IN FilterFeatures(s7, kw)

\* a row of the frame with its madlan_match_score column
Scored(row, s) ==
    [index |-> row.index,
     publish_date |-> row.publish_date, property_rooms |-> row.property_rooms,
     property_price |-> row.property_price,
     property_builded_area |-> row.property_builded_area,
     transaction_type |-> row.transaction_type,
     bulletin_has_parking |-> row.bulletin_has_parking,
     bulletin_has_elevator |-> row.bulletin_has_elevator,
     bulletin_has_balconies |-> row.bulletin_has_balconies,
     place |-> row.place,
     nearest_school_name |-> row.nearest_school_name,
     nearest_school_distance_km |-> row.nearest_school_distance_km,
     nearest_clinic_name |-> row.nearest_clinic_name,
     nearest_clinic_distance_km |-> row.nearest_clinic_distance_km,
     madlan_match_score |-> s]

\* the pool the percentiles of a score are taken over: self.properties_df
ScorePool(df, whole) == whole

\* lines 331-337: df['madlan_match_score'] = match_scores
ScoreRows(df, kw, whole, now) ==
    [i \in 1..Len(df) |->
        Scored(df[i],
               calculate_madlan_match_score(df[i], kw, ScorePool(df, whole), now))]

\* a sort whose result is dropped: the frame stays in dataset order
SortDropped(df) == {df}

\* df.sort_values('madlan_match_score', ascending=False): every order the default
\* (unstable) sort kind can leave the rows in: descending by score, ties in any order
sort_values(df) ==
    LET n == Len(df)
        Perms == {p \in [1..n -> 1..n] : \A i, j \in 1..n : i # j => p[i] # p[j]}
    IN {[i \in 1..n |-> df[p[i]]] : p \in
           {q \in Perms : \A i \in 1..(n - 1) :
               df[q[i]].madlan_match_score >= df[q[i + 1]].madlan_match_score}}

DEFAULT_LIMIT == 10

\* df.head(limit): the first limit rows, or all but the last -limit rows
head(df, limit) ==
    IF limit >= 0 THEN SubSeq(df, 1, Min(limit, Len(df)))
    ELSE SubSeq(df, 1, Max(0, Len(df) + limit))

Column(df, col) == [i \in 1..Len(df) |-> df[i][col]]

\* Series.min() / Series.max() of a non-empty column
SeriesMin(c) == CHOOSE x \in Range(c) : \A y \in Range(c) : x <= y
SeriesMax(c) == CHOOSE x \in Range(c) : \A y \in Range(c) : x >= y

\* the cells of a column that are not nan
RECURSIVE DropNa(_)
DropNa(c) == IF c = <<>> THEN <<>>
             ELSE (IF Head(c) = NaN THEN <<>> ELSE <<Head(c)>>) \o DropNa(Tail(c))

\* market statistics whose mean price is rounded up
MarketStatsMeanUp(df) ==
    IF Len(df) > 0
    THEN LET prices == Column(df, "property_price")
             areas == DropNa(Column(df, "property_builded_area"))
         IN [avg_price |-> (SeqSum(prices) + Len(prices) - 1) \div Len(prices),
             min_price |-> SeriesMin(prices),
             max_price |-> SeriesMax(prices),
             avg_area |-> IF areas = <<>> THEN NaN
                          ELSE Round1(SeqSum(areas), Len(areas))]
    ELSE [avg_price |-> 0, min_price |-> 0, max_price |-> 0, avg_area |-> 0]

\* market statistics whose minimum and maximum price are exchanged
MarketStatsSwapped(df) ==
    IF Len(df) > 0
    THEN LET prices == Column(df, "property_price")
             areas == DropNa(Column(df, "property_builded_area"))
         IN [avg_price |-> SeqSum(prices) \div Len(prices),
             min_price |-> SeriesMax(prices),
             max_price |-> SeriesMin(prices),
             avg_area |-> IF areas = <<>> THEN NaN
                          ELSE Round1(SeqSum(areas), Len(areas))]
    ELSE [avg_price |-> 0, min_price |-> 0, max_price |-> 0, avg_area |-> 0]

\* lines 348-353: market_stats over the page
market_stats(df) ==
    IF Len(df) > 0
    THEN LET prices == Column(df, "property_price")
             areas == DropNa(Column(df, "property_builded_area"))
         IN [avg_price |-> SeqSum(prices) \div Len(prices),
             min_price |-> SeriesMin(prices),
             max_price |-> SeriesMax(prices),
             \* round(mean, 1) in tenths; the mean of no cells is nan
             avg_area |-> IF areas = <<>> THEN NaN
                          ELSE Round1(SeqSum(areas), Len(areas))]
    ELSE [avg_price |-> 0, min_price |-> 0, max_price |-> 0, avg_area |-> 0]

\* lines 340-357: truncate the sorted frame and build the result
SearchResult(sorted, filters, kw, intent_data) ==
    LET limit == IF kw.limit.has THEN kw.limit.v ELSE DEFAULT_LIMIT
        df == head(sorted, limit)
    IN [properties |-> df,
        filters |-> filters,
        total_found |-> Len(df),
        search_params |-> kw,
        market_stats |-> market_stats(df),
        intent_data |-> intent_data]

\* a search that works on self.properties_df itself: as long as no filter has
\* rebound df, the score column is added to the shared frame
SearchInPlace(kw, whole, now) ==
    IF FilterPipeline(whole, kw).filters = <<>>
    THEN ScoreRows(whole, kw, whole, now)
    ELSE whole

\* self.properties_df after search_properties: df = self.properties_df.copy(), and
\* every later assignment is to df
properties_df_after(kw, whole, now) == whole

\* a search that honours sort_by = "price_low": the page is in ascending price order
SearchSortedAsAsked(kw, whole, now) ==
    LET st == FilterPipeline(whole, kw)
        scored == ScoreRows(st.df, kw, whole, now)
        n == Len(scored)
        Perms == {p \in [1..n -> 1..n] : \A i, j \in 1..n : i # j => p[i] # p[j]}
        ByPrice == {[i \in 1..n |-> scored[p[i]]] : p \in
                      {q \in Perms : \A i \in 1..(n - 1) :
                          scored[q[i]].property_price <= scored[q[i + 1]].property_price}}
    IN {SearchResult(sorted, st.filters, kw, detect_query_intent_and_amenities(kw)) :
            sorted \in IF kw.sort_by = Given("price_low")
                       THEN ByPrice ELSE sort_values(scored)}

\* search_properties: every result the call can return
search_properties(kw, whole, now) ==
    LET st == FilterPipeline(whole, kw)
        scored == ScoreRows(st.df, kw, whole, now)
    IN {SearchResult(sorted, st.filters, kw, detect_query_intent_and_amenities(kw)) :
            sorted \in sort_values(scored)}

(***************************************************************************)
(* Requests and responses.                                                  *)
(***************************************************************************)
\* search_properties(**arguments) with no argument given
NoArgs ==
    [query_text |-> "", transaction_type |-> Absent(""),
     max_price |-> Absent(0), min_price |-> Absent(0), rooms |-> Absent(0),
     near_schools |-> Absent(FALSE), near_medical |-> Absent(FALSE),
     has_parking |-> Absent(FALSE), has_elevator |-> Absent(FALSE),
     has_balcony |-> Absent(FALSE), limit |-> Absent(0),
     \* advertised by tools/list (lines 881-889) and read nowhere
     property_type |-> Absent(""), neighborhoods |-> Absent(<<>>),
     sort_by |-> Absent("")]

\* the "params" of a request: absent, or an object with or without "name" and
\* with "arguments" absent, an object or (wrongly) an array
NoParams == [has |-> FALSE, name |-> None, arguments |-> "absent", kw |-> NoArgs]
Params(name, arguments, kw) ==
    [has |-> TRUE, name |-> name, arguments |-> arguments, kw |-> kw]

\* an input line: blank, not JSON, a JSON value that is no object, or an object
BlankLine == [kind |-> "blank", id |-> Null, method |-> "", params |-> NoParams]
MalformedLine == [kind |-> "malformed", id |-> Null, method |-> "", params |-> NoParams]
ValueLine == [kind |-> "value", id |-> Null, method |-> "", params |-> NoParams]
Request(id, method, params) ==
    [kind |-> "object", id |-> id, method |-> method, params |-> params]

TOOL_NAME == "Madlan_MCP"

PARSE_ERROR == -32700
METHOD_NOT_FOUND == -32601
INTERNAL_ERROR == -32603

Result(id, body) == [kind |-> "result", id |-> id, code |-> 0, body |-> body]
Error(id, code, message) ==
    [kind |-> "error", id |-> id, code |-> code, body |-> [message |-> message]]
SKIP_RESPONSE == [kind |-> "skip", id |-> Null, code |-> 0, body |-> [message |-> ""]]
\* an exception that leaves handle_request
Raised == [kind |-> "raise", id |-> Null, code |-> 0, body |-> [message |-> ""]]

\* geodesic() raises ValueError for a point whose coordinates are not finite, and
\* format_desktop_optimized calls get_nearest_amenities for every row of the page
\* once an amenity category is mentioned
FormatRaises(results, mentioned_amenities) ==
    /\ results.properties # <<>>
    /\ mentioned_amenities # <<>>
    /\ \E i \in 1..Len(results.properties) : results.properties[i].place = NoPlace

\* format_desktop_optimized: what the report is rendered from
format_desktop_optimized(results, mentioned_amenities) ==
    IF results.properties = <<>>
    THEN [text |-> "No properties found matching your criteria."]
    ELSE [text |-> "COMPREHENSIVE PROPERTY SEARCH",
          property_count |-> Len(results.properties),
          mentioned_amenities |-> mentioned_amenities,
          market_stats |-> results.market_stats,
          filters |-> results.filters,
          properties |-> results.properties]

\* lines 929-935: data_response
data_response(results) ==
    [summary |-> "Found " \o ToString(Len(results.properties)) \o " properties",
     average_price |-> results.market_stats.avg_price,
     price_range |-> FormatThousands(results.market_stats.min_price) \o " - "
                     \o FormatThousands(results.market_stats.max_price) \o " NIS",
     properties |-> results.properties,
     total_found |-> results.total_found]

\* an except branch that drops the request's id
HandlerErrorNullId(request) == Error(Null, INTERNAL_ERROR, "Internal error")

\* lines 958-964: except Exception inside handle_request
HandlerError(request) == Error(request.id, INTERNAL_ERROR, "Internal error")

\* an unknown tool reported as an internal error
UnknownToolInternal(request) == Error(request.id, INTERNAL_ERROR, "Unknown tool")

\* lines 944-949: a tool name other than the registered one
UnknownTool(request) == Error(request.id, METHOD_NOT_FOUND, "Unknown tool")

\* an unknown method reported as an internal error
UnknownMethodInternal(request) == Error(request.id, INTERNAL_ERROR, "Unknown method")

\* lines 951-956: any other method
UnknownMethod(request) == Error(request.id, METHOD_NOT_FOUND, "Unknown method")

\* a dispatcher that acknowledges the lifecycle notification
NotificationAcknowledged(request) == Result(request.id, [acknowledged |-> TRUE])

\* lines 862-863: the lifecycle notification
NotificationResponse(request) == SKIP_RESPONSE

\* lines 912-943: the response to a call of the registered tool, for one search result
ToolResponse(request, results) ==
    IF results.intent_data.format_mode = "listings"
    THEN IF FormatRaises(results, results.intent_data.mentioned_amenities)
         THEN HandlerError(request)
         ELSE Result(request.id,
                     format_desktop_optimized(results,
                                              results.intent_data.mentioned_amenities))
    ELSE Result(request.id, data_response(results))

\* lines 909-913: whether handle_request gets to call search_properties
SearchCalled(request, loaded) ==
    /\ request.kind = "object"
    /\ request.method = "tools/call"
    /\ loaded
    /\ request.params.has
    /\ request.params.name # None
    /\ request.params.name = TOOL_NAME
    /\ request.params.arguments # "array"

\* lines 899-949: method == "tools/call"
ToolsCall(request, df, loaded, now) ==
    IF ~loaded
    THEN {Result(request.id, [text |-> "Data not loaded. Please run install.py first."])}
    ELSE IF ~request.params.has \/ request.params.name = None
    THEN \* request["params"]["name"] raises KeyError
         {HandlerError(request)}
    ELSE IF request.params.name = TOOL_NAME
    THEN IF request.params.arguments = "array"
         THEN \* search_properties(**arguments) raises TypeError
              {HandlerError(request)}
         ELSE {ToolResponse(request, results) :
                   results \in search_properties(request.params.kw, df, now)}
    ELSE {UnknownTool(request)}

\* handle_request: every response the call can return for a parsed line
handle_request(request, df, loaded, now) ==
    IF request.kind # "object"
    THEN \* request.get raises AttributeError, in the try and again in the handler
         {Raised}
    ELSE CASE request.method = "initialize" ->
                {Result(request.id, [serverInfo |-> TOOL_NAME])}
           [] request.method = "notifications/initialized" ->
                {NotificationResponse(request)}
           [] request.method = "tools/list" ->
                {Result(request.id, [tools |-> <<TOOL_NAME>>])}
           [] request.method = "tools/call" -> ToolsCall(request, df, loaded, now)
           [] OTHER -> {UnknownMethod(request)}

\* main, line 986-992: except json.JSONDecodeError
ParseErrorResponse == Error(Null, PARSE_ERROR, "Parse error")
\* main, line 994-1000: except Exception
MainInternalError == Error(Null, INTERNAL_ERROR, "Internal error")

\* main, lines 978-1001: what one non-blank line makes the loop print ("skip": nothing)
LineOutcomes(l, df, loaded, now) ==
    IF l.kind = "malformed"
    THEN {ParseErrorResponse}
    ELSE {IF r.kind = "raise" THEN MainInternalError ELSE r :
              r \in handle_request(l, df, loaded, now)}

(***************************************************************************)
(* Inputs of the model.                                                     *)
(***************************************************************************)
\* the days datetime.now() is taken on
ClockDays == {200, 500}

GivenCount(a) ==
    Cardinality({k \in {"transaction_type", "max_price", "min_price", "rooms",
                        "near_schools", "near_medical", "has_parking",
                        "has_elevator", "has_balcony", "limit"} : a[k].has})

\* the keyword arguments of the search_properties calls of the model
ArgSpace ==
    [query_text : {""},
     transaction_type : {Absent(""), Given("For Sale"), Given("To Let")},
     max_price : {Absent(0), Given(0), Given(100000), Given(1290000)},
     min_price : {Absent(0), Given(0), Given(100000)},
     rooms : {Absent(0), Given(35)},
     near_schools : {Absent(FALSE), Given(TRUE), Given(FALSE)},
     near_medical : {Absent(FALSE), Given(TRUE)},
     has_parking : {Absent(FALSE), Given(TRUE)},
     has_elevator : {Absent(FALSE), Given(TRUE)},
     has_balcony : {Absent(FALSE), Given(TRUE)},
     limit : {Absent(0), Given(0), Given(1), Given(2), Given(-1)},
     property_type : {Absent("")}, neighborhoods : {Absent(<<>>)},
     sort_by : {Absent("")}]

SearchArgs == {a \in ArgSpace : GivenCount(a) <= MaxGiven}

WithText(a, text) == [a EXCEPT !.query_text = text]

\* the arguments the advertised but unread keys are tried on
PlainArgs ==
    {NoArgs, [NoArgs EXCEPT !.limit = Given(2)],
     [NoArgs EXCEPT !.has_balcony = Given(TRUE)],
     [NoArgs EXCEPT !.transaction_type = Given("For Sale")],
     WithText(NoArgs, "show me flats for sale")}

\* the same arguments with values for property_type, neighborhoods and sort_by
WithUnreadKeys ==
    {[a EXCEPT !.property_type = t, !.neighborhoods = n, !.sort_by = o] :
        a \in PlainArgs,
        t \in {Absent(""), Given("PENTHOUSE")},
        n \in {Absent(<<>>), Given(<<"hadar">>)},
        o \in {Absent(""), Given("price_low"), Given("newest")}}

\* arguments that give nothing but what is read together with the query text: the
\* transaction type, the two flags that mention an amenity, a price bound, the limit
ReadWithText(a) ==
    ~(a.rooms.has \/ a.has_parking.has \/ a.has_elevator.has \/ a.has_balcony.has)

\* the search_properties calls of the model: arguments with or without a query text
SearchCalls ==
    SearchArgs \cup {WithText(a, text) :
                        a \in {b \in SearchArgs : /\ GivenCount(b) <= MaxGivenWithText
                                                  /\ ReadWithText(b)},
                        text \in QueryTexts}
               \cup WithUnreadKeys

\* the arguments calculate_madlan_match_score is applied with
ScoreArgs == {NoArgs, [NoArgs EXCEPT !.near_schools = Given(TRUE)]}

\* the arguments of the tools/call lines of the dispatcher's runs
DispatchArgs ==
    {WithText(NoArgs, "average price"),
     [NoArgs EXCEPT !.query_text = "average price", !.limit = Given(2)],
     WithText(NoArgs, "flats near bus station"),
     [NoArgs EXCEPT !.query_text = "show me flats for sale",
                    !.transaction_type = Given("To Let")],
     [NoArgs EXCEPT !.near_schools = Given(TRUE), !.limit = Given(1)]}

CallParams ==
    {NoParams,
     Params(None, "absent", NoArgs),
     Params("other_tool", "object", NoArgs),
     Params(TOOL_NAME, "array", NoArgs),
     Params(TOOL_NAME, "absent", NoArgs)}
    \cup {Params(TOOL_NAME, "object", a) : a \in DispatchArgs}

\* the lines sys.stdin can deliver
Lines ==
    {BlankLine, MalformedLine, ValueLine}
    \cup {Request("7", m, NoParams) :
            m \in {"initialize", "notifications/initialized", "tools/list",
                   "resources/list", ""}}
    \cup {Request(Null, m, NoParams) : m \in {"initialize", "resources/list"}}
    \cup {Request("7", "tools/call", p) : p \in CallParams}
    \cup {Request(Null, "tools/call", NoParams)}

\* the files the dispatcher's runs start from: no file, a file read_csv rejects,
\* and the files of MaxRows rows
DispatchFiles == {f \in FileStates : f.kind # "present" \/ Len(f.rows) = MaxRows}

NoResult == SearchResult(<<>>, <<>>, NoArgs, detect_query_intent_and_amenities(NoArgs))
NoScore == [row |-> 0, value |-> 0]

(***************************************************************************)
(* get_nearest_amenities: the catalog entries nearest to a coordinate.      *)
(***************************************************************************)
\* AMENITY_DATA: the entries of each category, in source order
AMENITY_DATA(amenity_type) ==
    CASE amenity_type = "schools" ->
           <<"hadar", "nordau", "givat-haones", "arts", "rambam", "max-shein">>
      [] amenity_type = "medical" ->
           <<"maccabi-hadar", "clalit-vizhnitz", "leumit-neve-paz", "carmel-clinic">>
      [] amenity_type = "transport" ->
           <<"central-bus", "haifa-center-rail", "metronit-carmelit">>
      [] OTHER -> <<>>         \* AMENITY_DATA.get(amenity_type, [])

\* geodesic(property_coords, amenity_coords).kilometers for the entries of a
\* category, in millimetres
\*   F = (32.790123, 35.010456)   G = (32.803456, 34.987890)
geodesic_amenity(place, amenity_type) ==
    CASE amenity_type = "schools" ->
           (CASE place = "A" -> <<893791, 124953, 1315319, 1429896, 1282397, 583918>>
              [] place = "B" -> <<2387917, 2903378, 3724098, 3243360, 1500286, 2837475>>
              [] place = "C" -> <<2107407, 2811699, 3799560, 3432643, 1507555, 2610492>>
              [] place = "D" -> <<4132053, 4922343, 5922093, 5516448, 3629098, 4656090>>
              [] place = "E" -> <<1980036, 1086652, 536119, 356620, 1845996, 1693722>>
              [] place = "F" -> <<2889362, 3052018, 3512232, 2867585, 1781420, 3208178>>
              [] place = "G" -> <<309933, 1034352, 2216634, 2155734, 812254, 748276>>)
      [] amenity_type = "medical" ->
           (CASE place = "A" -> <<918455, 2922611, 2926120, 342599>>
              [] place = "B" -> <<2388411, 374400, 1082811, 2797722>>
              [] place = "C" -> <<2101138, 402547, 1718670, 2786725>>
              [] place = "D" -> <<4120398, 1999361, 3134219, 4911894>>
              [] place = "E" -> <<2005727, 3475107, 2979188, 791530>>
              [] place = "F" -> <<2899528, 1491275, 44840, 2825248>>
              [] place = "G" -> <<320289, 2160056, 2552615, 1158118>>)
      [] amenity_type = "transport" ->
           (CASE place = "A" -> <<583918, 843994, 1061072>>
              [] place = "B" -> <<2837475, 3131198, 3538579>>
              [] place = "C" -> <<2610492, 3201463, 3585709>>
              [] place = "D" -> <<4656090, 5323421, 5710843>>
              [] place = "E" -> <<1693722, 282498, 477369>>
              [] place = "F" -> <<3208178, 2980267, 3390584>>
              [] place = "G" -> <<748276, 1677161, 1967831>>)

\* round(km, 3) of a distance given in millimetres, as metres
Round3(mm) == (mm + 500) \div 1000

\* a rating whose tiers take their upper boundary in
AccessibilityInclusive(mm) ==
    IF mm <= 300000 THEN "Excellent - Very close"
    ELSE IF mm <= 800000 THEN "Very Good - Walking distance"
    ELSE IF mm <= 1500000 THEN "Good - Short commute"
    ELSE "Fair - Longer commute"

\* the accessibility rating of a distance given in millimetres
accessibility(mm) ==
    IF mm < 300000 THEN "Excellent - Very close"
    ELSE IF mm < 800000 THEN "Very Good - Walking distance"
    ELSE IF mm < 1500000 THEN "Good - Short commute"
    ELSE "Fair - Longer commute"

\* walk_time_minutes of a distance given in millimetres
walk_time_minutes(mm) ==
    Max(1, mm \div 75000) + (IF mm > 500000 THEN (3 * mm) \div 1000000 ELSE 0)

\* drive_time_minutes of a distance given in millimetres
drive_time_minutes(mm) ==
    Max(2, (3 * mm) \div 1100000) + (IF mm > 800000 THEN (2 * mm) \div 1000000 ELSE 0)

\* public_transport_time of a distance given in millimetres
public_transport_time(mm) ==
    IF mm > 1500000 THEN 10 + mm \div 300000 + 6 ELSE NaN

\* amenity_info of the i-th entry of a category
amenity_info(place, amenity_type, i) ==
    LET mm == geodesic_amenity(place, amenity_type)[i]
    IN [name |-> AMENITY_DATA(amenity_type)[i],
        distance_km |-> Round3(mm),
        distance_meters |-> mm \div 1000,
        walk_time_min |-> walk_time_minutes(mm),
        drive_time_min |-> drive_time_minutes(mm),
        public_transport_min |-> public_transport_time(mm),
        accessibility_rating |-> accessibility(mm)]

\* a list left in the order it was built in
SortByDistanceDropped(amenity_distances) == amenity_distances

\* amenity_distances.sort(key=lambda x: x['distance_km']): list.sort is stable
SortByDistance(amenity_distances) ==
    LET n == Len(amenity_distances)
        Before(j, i) ==
            \/ amenity_distances[j].distance_km < amenity_distances[i].distance_km
            \/ /\ amenity_distances[j].distance_km = amenity_distances[i].distance_km
               /\ j < i
        Rank(i) == Cardinality({j \in 1..n : Before(j, i)}) + 1
    IN [p \in 1..n |-> amenity_distances[CHOOSE i \in 1..n : Rank(i) = p]]

\* s[:limit]
SliceTo(s, limit) ==
    IF limit >= 0 THEN SubSeq(s, 1, Min(limit, Len(s)))
    ELSE SubSeq(s, 1, Max(0, Len(s) + limit))

\* get_nearest_amenities: geodesic() raises ValueError for a nan coordinate,
\* which an empty catalog never lets it see
get_nearest_amenities(place, amenity_type, limit) ==
    LET amenities == AMENITY_DATA(amenity_type)
    IN IF place = NoPlace /\ amenities # <<>>
       THEN [raised |-> TRUE, entries |-> <<>>]
       ELSE [raised |-> FALSE,
             entries |-> SliceTo(SortByDistance(
                             [i \in 1..Len(amenities) |->
                                 amenity_info(place, amenity_type, i)]), limit)]

\* the categories get_nearest_amenities is asked for; "parks" is not in AMENITY_DATA
AmenityTypes == {"schools", "medical", "transport", "parks"}

\* the limits get_nearest_amenities is called with (lines 633, 649, 665, 682, 688),
\* its default, and the smaller counts
NearestLimits == {0, 1, 2, 3, 4, 5, 10}

\* the distances, in millimetres, a rating is taken of: the tier boundaries
\* 0.3, 0.8 and 1.5 km, their neighbours, and the ends of the scale
RatedDistances == {0, 299999, 300000, 300001, 799999, 800000, 800001,
                   1499999, 1500000, 1500001, 5000000}

NoRating == [distance |-> 0, accessibility_rating |-> None]

NoNearest == [property_coords |-> NoPlace, amenity_type |-> None, limit |-> 0,
              raised |-> FALSE, entries |-> <<>>]

(***************************************************************************)
(* The server: __init__ and the loop of main().                             *)
(***************************************************************************)
Construct(files, days) ==
    /\ \E file \in files :
          /\ properties_df = load_data(file).properties_df
          /\ data_loaded = load_data(file).data_loaded
          /\ data_file = file.kind
    /\ clock \in days
    /\ stdin_open = TRUE
    /\ line = BlankLine
    /\ response = SKIP_RESPONSE
    /\ inp = <<>>
    /\ out = <<>>
    /\ searches = 0
    /\ kwargs = NoArgs
    /\ result = NoResult
    /\ score = NoScore
    /\ nearest = NoNearest
    /\ rating = NoRating

Init == Construct(DispatchFiles, {200}) /\ pc = "read"

\* a loop that reads the next line before the response is printed
CanReadAhead == pc \in {"read", "write"}

\* for line in sys.stdin: the loop reads only between two iterations
CanRead == pc = "read"

\* a loop that leaves on a parse error, without printing
AfterParseErrorExit == "done"

\* where the loop goes from the except json.JSONDecodeError branch: on to its print
AfterParseError == "write"

\* line 973-976: a blank line is skipped
SkipBlank ==
    /\ CanRead /\ stdin_open
    /\ BlankLine \in Lines
    /\ UNCHANGED vars

\* line 973-974: the next non-blank line is read
ReadLine(l) ==
    /\ CanRead /\ stdin_open
    /\ Len(inp) < MaxLines
    /\ l.kind # "blank"
    /\ line' = l
    /\ inp' = Append(inp, l)
    /\ pc' = "handle"
    /\ UNCHANGED <<properties_df, nearest, rating, data_file, data_loaded, clock, stdin_open, response, out,
                   searches, kwargs, result, score>>

\* a dispatcher with a session: a tools/call is refused until initialize was read
HandleLineAfterInitialize ==
    /\ pc = "handle"
    /\ LET initialized == \E i \in 1..(Len(inp) - 1) :
                              inp[i].kind = "object" /\ inp[i].method = "initialize"
           refused == /\ line.kind = "object"
                      /\ line.method = "tools/call"
                      /\ ~initialized
       IN \E r \in IF refused THEN {HandlerError(line)}
                   ELSE LineOutcomes(line, properties_df, data_loaded, clock) :
             IF r.kind = "skip"
             THEN pc' = "read" /\ UNCHANGED response
             ELSE /\ response' = r
                  /\ pc' = IF line.kind = "malformed" THEN AfterParseError ELSE "write"
    /\ searches' = IF line.kind # "malformed" /\ SearchCalled(line, data_loaded)
                   THEN searches + 1 ELSE searches
    /\ properties_df' = IF line.kind # "malformed" /\ SearchCalled(line, data_loaded)
                        THEN properties_df_after(line.params.kw, properties_df, clock)
                        ELSE properties_df
    /\ UNCHANGED <<nearest, rating, data_file, data_loaded, clock, stdin_open, line, inp, out,
                   kwargs, result, score>>

\* lines 978-1001: json.loads and handle_request, up to the print
HandleLine ==
    /\ pc = "handle"
    /\ \E r \in LineOutcomes(line, properties_df, data_loaded, clock) :
          IF r.kind = "skip"
          THEN pc' = "read" /\ UNCHANGED response
          ELSE /\ response' = r
               /\ pc' = IF line.kind = "malformed" THEN AfterParseError ELSE "write"
    /\ searches' = IF line.kind # "malformed" /\ SearchCalled(line, data_loaded)
                   THEN searches + 1 ELSE searches
    /\ properties_df' = IF line.kind # "malformed" /\ SearchCalled(line, data_loaded)
                        THEN properties_df_after(line.params.kw, properties_df, clock)
                        ELSE properties_df
    /\ UNCHANGED <<nearest, rating, data_file, data_loaded, clock, stdin_open, line, inp, out,
                   kwargs, result, score>>

\* lines 983-984, 992-993, 1000-1001: print and flush
WriteResponse ==
    /\ pc = "write"
    /\ out' = Append(out, [req |-> Len(inp), resp |-> response])
    /\ pc' = "read"
    /\ UNCHANGED <<properties_df, nearest, rating, data_file, data_loaded, clock, stdin_open, line, response,
                   inp, searches, kwargs, result, score>>

\* the for loop ends with sys.stdin
EndOfInput ==
    /\ pc = "read" /\ stdin_open
    /\ stdin_open' = FALSE
    /\ pc' = "done"
    /\ UNCHANGED <<properties_df, nearest, rating, data_file, data_loaded, clock, line, response, inp, out,
                   searches, kwargs, result, score>>

Next ==
    \/ SkipBlank
    \/ \E l \in Lines : ReadLine(l)
    \/ HandleLine
    \/ WriteResponse
    \/ EndOfInput

Spec == Init /\ [][Next]_vars

(***************************************************************************)
(* search_properties and calculate_madlan_match_score applied to the        *)
(* arguments of the model, on every dataset load_data can leave.            *)
(***************************************************************************)
SearchInit == Construct(FileStates, ClockDays) /\ pc = "call"

DoSearch ==
    /\ pc = "call"
    /\ \E a \in SearchCalls :
          /\ kwargs' = a
          /\ result' \in search_properties(a, properties_df, clock)
          /\ properties_df' = properties_df_after(a, properties_df, clock)
    /\ pc' = "returned"
    /\ UNCHANGED <<nearest, rating, data_file, data_loaded, clock, stdin_open, line, response,
                   inp, out, searches, score>>

DoScore ==
    /\ pc = "call"
    /\ \E i \in 1..Len(properties_df), a \in ScoreArgs :
          /\ kwargs' = a
          /\ score' = [row |-> i,
                       value |-> calculate_madlan_match_score(
                                     properties_df[i], a, properties_df, clock)]
    /\ pc' = "scored"
    /\ UNCHANGED <<properties_df, nearest, rating, data_file, data_loaded, clock, stdin_open, line, response,
                   inp, out, searches, result>>

\* one call of get_nearest_amenities, as format_desktop_optimized makes them
DoNearest ==
    /\ pc = "call"
    /\ \E place \in Places \cup {NoPlace}, amenity_type \in AmenityTypes,
          limit \in NearestLimits :
          nearest' = [property_coords |-> place, amenity_type |-> amenity_type,
                      limit |-> limit,
                      raised |-> get_nearest_amenities(place, amenity_type, limit).raised,
                      entries |-> get_nearest_amenities(place, amenity_type, limit).entries]
    /\ pc' = "nearest"
    /\ UNCHANGED <<properties_df, rating, data_file, data_loaded, clock, stdin_open, line, response,
                   inp, out, searches, kwargs, result, score>>

\* the accessibility rating get_nearest_amenities gives an amenity at one distance
DoRate ==
    /\ pc = "call"
    /\ \E mm \in RatedDistances :
          rating' = [distance |-> mm, accessibility_rating |-> accessibility(mm)]
    /\ pc' = "rated"
    /\ UNCHANGED <<properties_df, nearest, data_file, data_loaded, clock, stdin_open, line,
                   response, inp, out, searches, kwargs, result, score>>

SearchNext == DoSearch \/ DoScore \/ DoNearest \/ DoRate

SearchSpec == SearchInit /\ [][SearchNext]_vars

(***************************************************************************)
(* Properties of the dispatcher (specification Spec).                       *)
(***************************************************************************)
\* the printed responses that answer the i-th line read
Answers(i) == {k \in 1..Len(out) : out[k].req = i}

\* the loop is done with the i-th line read
Settled(i) == i < Len(inp) \/ pc \in {"read", "done"}

IsNotification(l) == l.kind = "object" /\ l.method = "notifications/initialized"

\* the i-th line has the response lines a line of its kind is due
AnsweredAsDue(i) ==
    /\ \A k \in Answers(i) :
          out[k].resp \in LineOutcomes(inp[i], properties_df, data_loaded, clock)
    /\ Settled(i) =>
          Cardinality(Answers(i)) = IF IsNotification(inp[i]) THEN 0 ELSE 1

\* the loop ends only with its input
EndsOnlyAtEndOfInput == pc = "done" => ~stdin_open

\* C1: a line that is not JSON gets exactly one error response, with code -32700
\* and id null; the loop goes on, and the line after it is answered as that line
\* is answered anywhere else.
C1_ParseErrorAnswered ==
    /\ \A i \in 1..Len(inp) :
          inp[i].kind = "malformed" =>
             /\ \A k \in Answers(i) :
                   /\ out[k].resp.kind = "error"
                   /\ out[k].resp.code = -32700
                   /\ out[k].resp.id = Null
             /\ Settled(i) => Cardinality(Answers(i)) = 1
             /\ i < Len(inp) => AnsweredAsDue(i + 1)
    /\ EndsOnlyAtEndOfInput

\* C1 witness: a tool call read after a malformed line has been answered with a result
C1_Witness ==
    /\ Len(inp) = 2
    /\ inp[1].kind = "malformed"
    /\ Cardinality(Answers(1)) = 1
    /\ inp[2].kind = "object" /\ inp[2].method = "tools/call"
    /\ \E k \in Answers(2) : out[k].resp.kind = "result"

\* C2: every non-blank line other than the lifecycle notification gets exactly one
\* response line, carrying the id of the line it answers; the notification gets none.
C2_OneCorrelatedResponse ==
    /\ \A k \in 1..Len(out) :
          /\ out[k].req \in 1..Len(inp)
          /\ ~IsNotification(inp[out[k].req])
          /\ out[k].resp.id = inp[out[k].req].id
    /\ \A i \in 1..Len(inp) :
          Settled(i) =>
             Cardinality(Answers(i)) = IF IsNotification(inp[i]) THEN 0 ELSE 1

\* C2 witness: a notification passed unanswered, and a request with an id answered
C2_Witness ==
    /\ pc = "read"
    /\ Len(inp) = 2
    /\ IsNotification(inp[1]) /\ inp[1].id = "7"
    /\ inp[2].kind = "object" /\ inp[2].id = "7"
    /\ Len(out) = 1 /\ out[1].req = 2 /\ out[1].resp.id = "7"

\* the lines read that are due a response and have none yet
Pending == {i \in 1..Len(inp) : ~IsNotification(inp[i]) /\ Answers(i) = {}}

\* C3: one request at a time: only the line last read can be without its response,
\* no line is read while one is, and responses are printed in the order of the lines.
C3_OneRequestInFlight ==
    /\ Pending \subseteq {Len(inp)}
    /\ pc \in {"read", "done"} => Pending = {}
    /\ pc \in {"handle", "write"} => Len(inp) >= 1
    /\ \A k \in 1..(Len(out) - 1) : out[k].req < out[k + 1].req

\* C3 witness: two lines read and answered, in order
C3_Witness ==
    /\ Len(inp) = 2 /\ Len(out) = 2
    /\ out[1].req = 1 /\ out[2].req = 2

\* a tools/call that raises inside handle_request: no params, no name, arguments
\* that are no object, or a report that cannot be formatted
FailsInHandler(l) ==
    /\ l.kind = "object" /\ l.method = "tools/call"
    /\ \/ ~l.params.has
       \/ l.params.name = None
       \/ /\ l.params.name = TOOL_NAME
          /\ \/ l.params.arguments = "array"
             \/ /\ detect_query_intent_and_amenities(l.params.kw).format_mode = "listings"
                /\ detect_query_intent_and_amenities(l.params.kw).mentioned_amenities # <<>>
                /\ \E j \in 1..Len(properties_df) : properties_df[j].place = NoPlace
                /\ \A r \in search_properties(l.params.kw, properties_df, clock) :
                      /\ r.intent_data.format_mode = "listings"
                      /\ FormatRaises(r, r.intent_data.mentioned_amenities)

\* C4: a failure while handling a line is answered by one error response with code
\* -32603, carrying the id of the request when the line is a JSON object and null
\* otherwise; the loop goes on and answers the next line as usual.
C4_InternalErrorAnswered ==
    /\ \A i \in 1..Len(inp) :
          (inp[i].kind = "value" \/ FailsInHandler(inp[i])) =>
             /\ \A k \in Answers(i) :
                   /\ out[k].resp.kind = "error"
                   /\ out[k].resp.code = -32603
                   /\ out[k].resp.id = IF inp[i].kind = "object" THEN inp[i].id ELSE Null
             /\ Settled(i) => Cardinality(Answers(i)) = 1
             /\ i < Len(inp) => AnsweredAsDue(i + 1)
    /\ pc = "done" => ~stdin_open /\ Pending = {}

\* C4 witness: a search whose report cannot be formatted, sent with an id, has been
\* answered, and so has the line after it
C4_Witness ==
    /\ Len(inp) = 2 /\ Len(out) = 2
    /\ FailsInHandler(inp[1])
    /\ inp[1].params.has /\ inp[1].params.arguments = "object"
    /\ inp[1].id = "7"
    /\ out[1].resp.id = "7" /\ out[1].resp.code = -32603
    /\ out[2].resp.kind = "result"

KnownMethods == {"initialize", "notifications/initialized", "tools/list", "tools/call"}

\* C5: a request with any other method gets an error response with code -32601
\* and the request's id, and no result.
C5_MethodNotFound ==
    \A i \in 1..Len(inp) :
       (inp[i].kind = "object" /\ inp[i].method \notin KnownMethods) =>
          /\ \A k \in Answers(i) :
                /\ out[k].resp.kind = "error"
                /\ out[k].resp.code = -32601
                /\ out[k].resp.id = inp[i].id
          /\ Settled(i) => Cardinality(Answers(i)) = 1

\* C5 witness: a request with an unknown method and an id has been answered
C5_Witness ==
    \E i \in 1..Len(inp) :
       /\ inp[i].kind = "object" /\ inp[i].method = "resources/list" /\ inp[i].id = "7"
       /\ Answers(i) # {}

NamesOtherTool(l) ==
    /\ l.kind = "object" /\ l.method = "tools/call"
    /\ l.params.has /\ l.params.name \notin {None, TOOL_NAME}

\* C6: a tools/call that names another tool gets an error response with code -32601
\* and the request's id; it runs no search, and the loop goes on.
C6_UnknownTool ==
    /\ \A i \in 1..Len(inp) :
          NamesOtherTool(inp[i]) =>
             /\ \A k \in Answers(i) :
                   /\ out[k].resp.kind = "error"
                   /\ out[k].resp.code = -32601
                   /\ out[k].resp.id = inp[i].id
             /\ Settled(i) => Cardinality(Answers(i)) = 1
             /\ i < Len(inp) => AnsweredAsDue(i + 1)
    /\ searches <= Cardinality({i \in 1..Len(inp) : ~NamesOtherTool(inp[i])
                                                     /\ inp[i].method = "tools/call"})

\* C6 witness: a call of another tool answered without a search, and the next line read
C6_Witness ==
    /\ Len(inp) = 2
    /\ NamesOtherTool(inp[1]) /\ inp[1].id = "7"
    /\ Cardinality(Answers(1)) = 1
    /\ searches = 0
    /\ pc = "handle"

(***************************************************************************)
(* Properties of search_properties and of the score (SearchSpec).           *)
(***************************************************************************)
Returned == pc = "returned"
Page == result.properties

\* C7: every returned property is priced within the bounds given, whatever
\* their value.
C7_PriceWithinGivenBounds ==
    Returned =>
       \A j \in 1..Len(Page) :
          /\ kwargs.max_price.has => Page[j].property_price <= kwargs.max_price.v
          /\ kwargs.min_price.has => Page[j].property_price >= kwargs.min_price.v

\* C8: with near_schools set every returned property is within 1.5 km of a school,
\* with near_medical set within 2.0 km of a clinic; the 999 sentinel never passes.
C8_NearFacilities ==
    Returned =>
       \A j \in 1..Len(Page) :
          /\ Truthy(kwargs.near_schools, FALSE) =>
                /\ Page[j].nearest_school_distance_km <= 150
                /\ Page[j].place # NoPlace
          /\ Truthy(kwargs.near_medical, FALSE) =>
                /\ Page[j].nearest_clinic_distance_km <= 200
                /\ Page[j].place # NoPlace

\* C8 witness: a near-schools search over a dataset with a row past 1.5 km and a row
\* without coordinates returned the row at exactly 1.5 km
C8_Witness ==
    /\ Returned
    /\ Truthy(kwargs.near_schools, FALSE)
    /\ \E j \in 1..Len(Page) : Page[j].nearest_school_distance_km = 150
    /\ \E i \in 1..Len(properties_df) : properties_df[i].nearest_school_distance_km = 151
    /\ \E i \in 1..Len(properties_df) :
          properties_df[i].nearest_school_distance_km = SENTINEL_KM

IsPrefix(p, text) == Len(text) >= Len(p) /\ SubSeq(text, 1, Len(p)) = p

FiltersWith(p) == {k \in 1..Len(result.filters) : IsPrefix(p, result.filters[k])}

\* C9: an explicit transaction_type is the only transaction filter: every returned
\* property has it, the type read off the query text is not applied, and the filter
\* list never holds both a 'Transaction type:' and an 'Auto-detected:' entry.
C9_ExplicitTransactionOverrides ==
    Returned =>
       /\ kwargs.transaction_type.has =>
             /\ \A j \in 1..Len(Page) :
                   Page[j].transaction_type = kwargs.transaction_type.v
             /\ FiltersWith("Auto-detected:") = {}
             /\ Cardinality(FiltersWith("Transaction type:")) = 1
       /\ FiltersWith("Auto-detected:") = {} \/ FiltersWith("Transaction type:") = {}

\* C9 witness: an explicit 'To Let' with a query text that reads as 'For Sale'
\* returned properties
C9_Witness ==
    /\ Returned
    /\ kwargs.transaction_type = Given("To Let")
    /\ result.intent_data.detected_transaction = "For Sale"
    /\ Page # <<>>

\* C10: every match score lies within [0, 100].
C10_ScoreWithinRange ==
    /\ pc = "scored" => score.value >= 0 /\ score.value <= 1000
    /\ Returned =>
          \A j \in 1..Len(Page) :
             Page[j].madlan_match_score >= 0 /\ Page[j].madlan_match_score <= 1000

\* C10 witness: a row published in the future whose unclamped sum is above 100
C10_Witness ==
    /\ pc = "scored"
    /\ properties_df[score.row].publish_date.kind = "date"
    /\ properties_df[score.row].publish_date.day > clock
    /\ RawScore(properties_df[score.row], kwargs, properties_df, clock) > 1000
    /\ score.value = 1000

\* record r is strictly cheaper, strictly larger, strictly more recently published
\* than record p, and has all three features
Dominates(r, p) ==
    /\ r.property_price < p.property_price
    /\ Lt(p.property_builded_area, r.property_builded_area)
    /\ r.publish_date.kind = "date" /\ p.publish_date.kind = "date"
    /\ r.publish_date.day > p.publish_date.day
    /\ r.bulletin_has_parking /\ r.bulletin_has_elevator /\ r.bulletin_has_balconies

\* the page is the whole filtered pool: no limit was given and the default is not reached
WholePool == Returned /\ ~kwargs.limit.has /\ Len(Page) < DEFAULT_LIMIT

BestOfPool(i) == \A j \in 1..Len(Page) : j # i => Dominates(Page[i], Page[j])

ScoresPoolMaximum(i) ==
    \A j \in 1..Len(Page) : Page[i].madlan_match_score >= Page[j].madlan_match_score

\* C11 as stated: a record that is cheaper, larger, newer and fully featured than
\* every other record of its pool scores at least as much as each of them, whether
\* or not near_schools was requested.
C11_DominantScoresMaximum ==
    WholePool => \A i \in 1..Len(Page) : BestOfPool(i) => ScoresPoolMaximum(i)

\* C11 amended: such a record scores at least as much as every other record of its
\* pool when near_schools was not requested.
C11_DominantScoresMaximumAmended ==
    (WholePool /\ ~Truthy(kwargs.near_schools, FALSE)) =>
       \A i \in 1..Len(Page) : BestOfPool(i) => ScoresPoolMaximum(i)

\* C11 witness: a pool of several records led by its dominant record, without near_schools
C11_Witness ==
    /\ WholePool
    /\ ~Truthy(kwargs.near_schools, FALSE)
    /\ Len(Page) >= 2
    /\ BestOfPool(1)
    /\ Page[1].madlan_match_score > Page[2].madlan_match_score

\* C12: the returned properties are in non-increasing order of match score.
C12_DescendingScores ==
    Returned =>
       \A i, j \in 1..Len(Page) :
          i < j => Page[i].madlan_match_score >= Page[j].madlan_match_score

\* C12 witness: the best-scored record of the page comes later in the dataset than
\* the record it is returned ahead of
C12_Witness ==
    /\ Returned
    /\ Len(Page) >= 2
    /\ Page[1].index > Page[2].index
    /\ Page[1].madlan_match_score > Page[2].madlan_match_score

\* C13: the sort is stable: two returned records with the same score are in the
\* order they have in the loaded dataset.
C13_StableSort ==
    Returned =>
       \A i, j \in 1..Len(Page) :
          (i < j /\ Page[i].madlan_match_score = Page[j].madlan_match_score)
             => Page[i].index < Page[j].index

\* the filtered pool of the call that returned, with its scores, in dataset order
Pool == ScoreRows(FilterPipeline(properties_df, kwargs).df, kwargs, properties_df, clock)

\* the limit of the call: the argument, or the default
Limit == IF kwargs.limit.has THEN kwargs.limit.v ELSE DEFAULT_LIMIT

PageIndexes == {Page[j].index : j \in 1..Len(Page)}

\* C14: the page holds exactly min(limit, size of the filtered pool) records, no
\* omitted record of the pool scores higher than a returned one, and the count
\* never exceeds the limit, whatever limit is supplied (large, zero or negative).
C14_TruncatedToLimit ==
    Returned =>
       /\ Len(Page) = Min(Limit, Len(Pool))
       /\ Len(Page) <= Limit
       /\ \A i \in 1..Len(Pool), j \in 1..Len(Page) :
             Pool[i].index \notin PageIndexes
                => Pool[i].madlan_match_score <= Page[j].madlan_match_score

(***************************************************************************)
(* Reading a data-mode payload back.                                        *)
(***************************************************************************)
DecimalDigits == "0123456789"

DigitValue(c) == CHOOSE d \in 0..9 : SubSeq(DecimalDigits, d + 1, d + 1) = c

\* int(text.replace(",", "")) for a text of digits and thousands separators
RECURSIVE ParseNumber(_, _)
ParseNumber(text, acc) ==
    IF text = "" THEN acc
    ELSE LET c == SubSeq(text, 1, 1)
             rest == SubSeq(text, 2, Len(text))
         IN IF c = "," THEN ParseNumber(rest, acc)
            ELSE ParseNumber(rest, acc * 10 + DigitValue(c))

\* where the separator sep starts in text
FindFirst(sep, text) ==
    CHOOSE k \in 1..Len(text) :
       /\ SubSeq(text, k, k + Len(sep) - 1) = sep
       /\ \A m \in 1..(k - 1) : SubSeq(text, m, m + Len(sep) - 1) # sep

\* "1,290,000 - 1,750,000 NIS" read back as a pair of numbers
ParsePriceRange(text) ==
    LET k == FindFirst(" - ", text)
        low == SubSeq(text, 1, k - 1)
        high == SubSeq(text, k + 3, Len(text) - Len(" NIS"))
    IN [min |-> ParseNumber(low, 0), max |-> ParseNumber(high, 0)]

\* "Found 3 properties" read back as a number
ParseSummary(text) ==
    ParseNumber(SubSeq(text, Len("Found ") + 1, Len(text) - Len(" properties")), 0)

\* the printed responses that carry a data-mode payload
DataAnswers ==
    {k \in 1..Len(out) :
        LET l == inp[out[k].req]
        IN /\ l.kind = "object" /\ l.method = "tools/call"
           /\ l.params.has /\ l.params.name = TOOL_NAME /\ l.params.arguments = "object"
           /\ out[k].resp.kind = "result"
           /\ detect_query_intent_and_amenities(l.params.kw).format_mode = "data"}

\* the filtered pool of the call that the k-th response answers
PoolOf(k) == FilterPipeline(properties_df, inp[out[k].req].params.kw).df

Prices(df) == Column(df, "property_price")

\* C15 as stated: the count and the price range read back from a data-mode payload
\* are those of the full filtered pool, for every limit and pool size.
C15_DataRoundTripPool ==
    \A k \in DataAnswers :
       LET body == out[k].resp.body
           pool == PoolOf(k)
       IN /\ ParseSummary(body.summary) = Len(pool)
          /\ body.total_found = Len(pool)
          /\ Len(body.properties) = Len(pool)
          /\ pool # <<>> =>
                /\ ParsePriceRange(body.price_range).min = SeriesMin(Prices(pool))
                /\ ParsePriceRange(body.price_range).max = SeriesMax(Prices(pool))

\* C15 amended: the count and the price range read back are those of the returned
\* page (0 - 0 for an empty page); they are the pool's when the pool has no more
\* records than the limit.
C15_DataRoundTripPage ==
    \A k \in DataAnswers :
       LET body == out[k].resp.body
           pool == PoolOf(k)
           kw == inp[out[k].req].params.kw
           limit == IF kw.limit.has THEN kw.limit.v ELSE DEFAULT_LIMIT
           range == ParsePriceRange(body.price_range)
       IN /\ ParseSummary(body.summary) = Len(body.properties)
          /\ body.total_found = Len(body.properties)
          /\ IF body.properties = <<>>
             THEN range.min = 0 /\ range.max = 0
             ELSE /\ range.min = SeriesMin(Prices(body.properties))
                  /\ range.max = SeriesMax(Prices(body.properties))
          /\ Len(pool) <= limit =>
                /\ Len(body.properties) = Len(pool)
                /\ pool # <<>> =>
                      /\ range.min = SeriesMin(Prices(pool))
                      /\ range.max = SeriesMax(Prices(pool))

\* C15 witness: a data-mode answer whose page is shorter than the pool, with distinct
\* lowest and highest price, and one whose page is the whole pool
C15_Witness ==
    /\ \E k \in DataAnswers :
          /\ Len(out[k].resp.body.properties) = 2
          /\ Len(PoolOf(k)) = 3
          /\ ParsePriceRange(out[k].resp.body.price_range).min
                < ParsePriceRange(out[k].resp.body.price_range).max
    /\ \E k \in DataAnswers : Len(out[k].resp.body.properties) = Len(PoolOf(k))

\* the query texts of the model that hold a data indicator, a listing indicator, an
\* amenity keyword, as read off the source's keyword lists by hand
WithDataIndicator == {"average price", "buy or rent statistics",
                      "compare the best apartments", "how many Clinics by train"}
WithListingIndicator == {"show me flats for sale", "Apartments to RENT near schools",
                         "flats near bus station", "compare the best apartments"}
WithAmenityKeyword == {"Apartments to RENT near schools", "flats near bus station",
                       "how many Clinics by train"}

\* C16: format_mode is 'data' exactly when the text holds a data indicator, holds no
\* listing indicator, and no amenity is mentioned by keyword or by the near_schools /
\* near_medical flag; in every other case it is 'listings'.
C16_FormatMode ==
    Returned =>
       /\ result.intent_data.format_mode \in {"data", "listings"}
       /\ result.intent_data.format_mode = "data" <=>
             /\ kwargs.query_text \in WithDataIndicator
             /\ kwargs.query_text \notin WithListingIndicator
             /\ kwargs.query_text \notin WithAmenityKeyword
             /\ ~Truthy(kwargs.near_schools, FALSE)
             /\ ~Truthy(kwargs.near_medical, FALSE)

\* C16 witness: a text with both a data and a listing indicator, and no amenity,
\* was classified 'listings'
C16_Witness ==
    /\ Returned
    /\ kwargs.query_text = "compare the best apartments"
    /\ ~Truthy(kwargs.near_schools, FALSE) /\ ~Truthy(kwargs.near_medical, FALSE)
    /\ result.intent_data.is_data_query /\ result.intent_data.is_listing_query
    /\ result.intent_data.mentioned_amenities = <<>>
    /\ result.intent_data.format_mode = "listings"

\* C17: no request changes the loaded dataset: no record is changed, no column
\* added, no row moved or removed.
C17_DatasetUnchanged == [][properties_df' = properties_df]_vars

\* C17 witness: a search has run and been answered with a result, and a line that
\* failed has been answered with an error
C17_Witness ==
    /\ searches >= 1
    /\ \E k \in 1..Len(out) :
          /\ inp[out[k].req].method = "tools/call"
          /\ out[k].resp.kind = "result"
    /\ \E k \in 1..Len(out) : out[k].resp.kind = "error"

\* a call of the registered tool whose result page holds a record without coordinates
PageWithoutCoordinates(l) ==
    /\ l.kind = "object" /\ l.method = "tools/call"
    /\ l.params.has /\ l.params.name = TOOL_NAME /\ l.params.arguments = "object"
    /\ \A r \in search_properties(l.params.kw, properties_df, clock) :
          \E j \in 1..Len(r.properties) : r.properties[j].place = NoPlace

\* C18: a tools/call whose result page holds a record without latitude/longitude is
\* answered with a result, not an error, also in listings mode with an amenity
\* category mentioned.
C18_MissingCoordinatesDegrade ==
    \A i \in 1..Len(inp) :
       PageWithoutCoordinates(inp[i]) =>
          \A k \in Answers(i) : out[k].resp.kind = "result"

\* the built-in dataset, written out from create_fallback_data's literals: price,
\* rooms (in tenths), built area, nearest-school distance (in hundredths of a km)
FallbackFacts == << <<1290000, 40, 100, 14>>, <<1590000, 35, 68, 8>>,
                    <<1750000, 30, 80, 5>> >>

IsFallback(df) ==
    /\ Len(df) = 3
    /\ \A i \in 1..3 :
          /\ df[i].property_price = FallbackFacts[i][1]
          /\ df[i].property_rooms = FallbackFacts[i][2]
          /\ df[i].property_builded_area = FallbackFacts[i][3]
          /\ df[i].nearest_school_distance_km = FallbackFacts[i][4]
          /\ df[i].transaction_type = "For Sale"

\* C19: whatever load_data finds (a loadable file, no file, a file that fails to
\* load), data_loaded is true once the server is constructed; without a loadable
\* file the dataset is the built-in three records; and no tools/call is answered
\* with the 'Data not loaded' message.
C19_AlwaysServes ==
    /\ data_loaded
    /\ data_file \in {"missing", "corrupt"} => IsFallback(properties_df)
    /\ \A k \in 1..Len(out) :
          out[k].resp # Result(inp[out[k].req].id,
                               [text |-> "Data not loaded. Please run install.py first."])

\* C19 witness: after a load that raised, a tools/call has been answered with a result
C19_Witness ==
    /\ data_file = "corrupt"
    /\ \E k \in DataAnswers : Len(out[k].resp.body.properties) = 3

\* the catalog get_nearest_amenities picked from
Catalog == AMENITY_DATA(nearest.amenity_type)

\* the call returned
NearestReturned == pc = "nearest" /\ ~nearest.raised

\* the distance from the call's coordinate to the i-th catalog entry, as reported
ReportedDistance(i) == Round3(geodesic_amenity(nearest.property_coords, nearest.amenity_type)[i])

\* the catalog position of a returned entry
CatalogIndex(e) == CHOOSE i \in 1..Len(Catalog) : Catalog[i] = e.name

\* C20: a call of get_nearest_amenities(coords, category, k) that returns gives
\* min(k, catalog size) entries, all of them distinct entries of the category's
\* catalog carrying their distance to coords, no entry left out is nearer to
\* coords than a returned one, and the returned distances never decrease
C20_NearestAmenities ==
    NearestReturned =>
        LET es == nearest.entries
            chosen == {CatalogIndex(es[p]) : p \in 1..Len(es)}
        IN /\ Len(es) = Min(nearest.limit, Len(Catalog))
           /\ \A p \in 1..Len(es) :
                 /\ es[p].name \in Range(Catalog)
                 /\ es[p].distance_km = ReportedDistance(CatalogIndex(es[p]))
           /\ Cardinality(chosen) = Len(es)
           /\ \A i \in chosen, j \in (1..Len(Catalog)) \ chosen :
                 ReportedDistance(i) <= ReportedDistance(j)
           /\ \A p \in 1..(Len(es) - 1) : es[p].distance_km <= es[p + 1].distance_km

\* C20 witness: a call that asked for fewer entries than the catalog has and got
\* them in another order than the catalog's, the nearest rated excellent and a
\* later one fair
C20_Witness ==
    /\ NearestReturned
    /\ nearest.limit >= 2 /\ nearest.limit < Len(Catalog)
    /\ Len(nearest.entries) = nearest.limit
    /\ CatalogIndex(nearest.entries[1]) > CatalogIndex(nearest.entries[2])
    /\ nearest.entries[1].accessibility_rating = "Excellent - Very close"
    /\ \E p \in 2..Len(nearest.entries) :
          nearest.entries[p].accessibility_rating = "Fair - Longer commute"

(***************************************************************************)
(* Properties of the data preparation and of the search (continued).        *)
(***************************************************************************)
\* the rows of the dataset came from the listings_enriched.csv install.py wrote
FromInstalledFile == data_file = "present"

\* C21: install.py classifies every listing by its price with the boundary at
\* 100,000: a price strictly below 100,000 is 'To Let', a price of 100,000 or more,
\* exactly 100,000 included, is 'For Sale'
C21_ClassifiedByPrice ==
    FromInstalledFile =>
        \A i \in 1..Len(properties_df) :
            /\ properties_df[i].property_price < 100000
                  => properties_df[i].transaction_type = "To Let"
            /\ properties_df[i].property_price >= 100000
                  => properties_df[i].transaction_type = "For Sale"

\* C21 witness: an installed file with a listing at exactly 100,000 classified
\* 'For Sale' next to one at 99,999 classified 'To Let'
C21_Witness ==
    /\ FromInstalledFile
    /\ \E i, j \in 1..Len(properties_df) :
          /\ properties_df[i].property_price = 100000
          /\ properties_df[i].transaction_type = "For Sale"
          /\ properties_df[j].property_price = 99999
          /\ properties_df[j].transaction_type = "To Let"

\* the records that pass every filter of the call that returned, in dataset order
FilteredPool == FilterPipeline(properties_df, kwargs).df

\* C22: the price and area percentile ranks in the score of every returned record
\* are taken over the full filtered pool of the search: the score is the one
\* calculate_madlan_match_score gives with that pool as the set of peers
C22_PercentilesOverFilteredPool ==
    Returned =>
       \A j \in 1..Len(Page) :
          Page[j].madlan_match_score =
              calculate_madlan_match_score(Page[j], kwargs, FilteredPool, clock)

\* the sum of one column of the page, over the rows that have a value there
RECURSIVE PageSum(_, _)
PageSum(col, j) ==
    IF j = 0 THEN 0
    ELSE PageSum(col, j - 1) + (IF Page[j][col] = NaN THEN 0 ELSE Page[j][col])

\* the rows of the page that have a built area
WithArea == {j \in 1..Len(Page) : Page[j].property_builded_area # NaN}

\* C23: the market statistics of a result are those of the returned page:
\* min_price and max_price are the least and the greatest price on the page,
\* avg_price is the mean price of the page cut to an integer, avg_area is the mean
\* built area of the page to one decimal, and all four are 0 when the page is empty
C23_StatsOverPage ==
    Returned =>
       LET st == result.market_stats
           n == Len(Page)
           total == PageSum("property_price", n)
           area == PageSum("property_builded_area", n)
           m == Cardinality(WithArea)
       IN IF n = 0
          THEN st.avg_price = 0 /\ st.min_price = 0 /\ st.max_price = 0 /\ st.avg_area = 0
          ELSE /\ \E j \in 1..n : Page[j].property_price = st.min_price
               /\ \A j \in 1..n : Page[j].property_price >= st.min_price
               /\ \E j \in 1..n : Page[j].property_price = st.max_price
               /\ \A j \in 1..n : Page[j].property_price <= st.max_price
               /\ st.avg_price * n <= total /\ total < (st.avg_price + 1) * n
               /\ m > 0 => /\ 2 * (st.avg_area * m - 10 * area) <= m
                           /\ 2 * (10 * area - st.avg_area * m) <= m

\* C23 witness: a page cut short by the limit, whose mean price is not a whole
\* number and whose price range is narrower than that of the filtered pool
C23_Witness ==
    /\ Returned
    /\ Len(Page) >= 2 /\ Len(Page) = Limit /\ Len(Page) < Len(FilteredPool)
    /\ PageSum("property_price", Len(Page)) % Len(Page) # 0
    /\ result.market_stats.min_price < result.market_stats.max_price
    /\ \/ result.market_stats.min_price # SeriesMin(Prices(FilteredPool))
       \/ result.market_stats.max_price # SeriesMax(Prices(FilteredPool))

\* the query texts of the model that hold, once lower-cased, a keyword of each
\* amenity category, as read off the source's keyword lists by hand
WithSchoolKeyword == {"Apartments to RENT near schools"}
WithMedicalKeyword == {"how many Clinics by train"}
WithTransportKeyword == {"flats near bus station", "how many Clinics by train"}

Mentioned == result.intent_data.mentioned_amenities

\* C24: schools, medical and transport are each in mentioned_amenities exactly
\* when a keyword of the category occurs in the lower-cased query text or the
\* category's flag is set (near_schools for schools, near_medical for medical; none
\* for transport), and no category is listed twice
C24_MentionedAmenities ==
    Returned =>
       /\ "schools" \in Range(Mentioned)
             <=> \/ kwargs.query_text \in WithSchoolKeyword
                 \/ Truthy(kwargs.near_schools, FALSE)
       /\ "medical" \in Range(Mentioned)
             <=> \/ kwargs.query_text \in WithMedicalKeyword
                 \/ Truthy(kwargs.near_medical, FALSE)
       /\ "transport" \in Range(Mentioned)
             <=> kwargs.query_text \in WithTransportKeyword
       /\ Range(Mentioned) \subseteq {"schools", "medical", "transport"}
       /\ Cardinality(Range(Mentioned)) = Len(Mentioned)

\* C24 witness: a text that names clinics, with a capital, and a train, searched
\* with both flags set: medical is listed once, schools comes from its flag alone
C24_Witness ==
    /\ Returned
    /\ kwargs.query_text = "how many Clinics by train"
    /\ Truthy(kwargs.near_schools, FALSE) /\ Truthy(kwargs.near_medical, FALSE)
    /\ Mentioned = <<"medical", "transport", "schools">>

\* the query texts of the model that hold, once lower-cased, a for-sale keyword or
\* a to-let keyword, as read off the source's keyword lists by hand
WithForSaleKeyword == {"show me flats for sale", "buy or rent statistics"}
WithToLetKeyword == {"Apartments to RENT near schools", "buy or rent statistics",
                     "דירה להשכרה"}

Detected == result.intent_data.detected_transaction

\* C25: the for-sale keywords are tried before the to-let keywords and the first
\* match wins: a text with a for-sale keyword gives 'For Sale' even when it also
\* holds a to-let keyword, a text with to-let keywords only gives 'To Let', and a
\* text with neither gives no type, and then no auto-detected filter is applied
\* (a search left without any filter returns the whole dataset)
C25_TransactionDetection ==
    Returned =>
       /\ kwargs.query_text \in WithForSaleKeyword => Detected = "For Sale"
       /\ kwargs.query_text \in WithToLetKeyword \ WithForSaleKeyword
             => Detected = "To Let"
       /\ kwargs.query_text \notin WithForSaleKeyword \cup WithToLetKeyword
             => /\ Detected = None
                /\ FiltersWith("Auto-detected:") = {}
                /\ (result.filters = <<>> /\ WholePool)
                      => Len(Page) = Len(properties_df)

\* C25 witness: a text with a for-sale and a to-let keyword, searched without an
\* explicit type over a dataset that has a listing to let: the for-sale filter is
\* applied and only listings for sale are returned
C25_Witness ==
    /\ Returned
    /\ kwargs.query_text \in WithForSaleKeyword \cap WithToLetKeyword
    /\ ~kwargs.transaction_type.has
    /\ Detected = "For Sale"
    /\ result.filters = <<"Auto-detected: For Sale properties only">>
    /\ \E i \in 1..Len(properties_df) : properties_df[i].transaction_type = "To Let"
    /\ Page # <<>>
    /\ \A j \in 1..Len(Page) : Page[j].transaction_type = "For Sale"

\* how the description of each of the nine filters begins, in pipeline order
SlotStarts == <<
    {"Transaction type: ", "Auto-detected: "}, {"Max price: "}, {"Min price: "},
    {"Min rooms: "}, {"Near schools"}, {"Near medical"},
    {"Must have parking"}, {"Must have elevator"}, {"Must have balcony"} >>

\* the filters the call applied, by their place in the pipeline
AppliedSlots ==
    {k \in 1..9 :
        CASE k = 1 -> Truthy(kwargs.transaction_type, "") \/ Detected # None
          [] k = 2 -> Truthy(kwargs.max_price, 0)
          [] k = 3 -> Truthy(kwargs.min_price, 0)
          [] k = 4 -> Truthy(kwargs.rooms, 0)
          [] k = 5 -> Truthy(kwargs.near_schools, FALSE)
          [] k = 6 -> Truthy(kwargs.near_medical, FALSE)
          [] k = 7 -> Truthy(kwargs.has_parking, FALSE)
          [] k = 8 -> Truthy(kwargs.has_elevator, FALSE)
          [] k = 9 -> Truthy(kwargs.has_balcony, FALSE)}

\* the filters the i-th entry of the returned filter list describes
SlotsOf(i) ==
    {k \in 1..Len(SlotStarts) : \E p \in SlotStarts[k] : IsPrefix(p, result.filters[i])}

\* the entries of the returned filter list that describe the k-th filter
SlotEntries(k) == {i \in 1..Len(result.filters) : k \in SlotsOf(i)}

\* C26: the filter list holds exactly one description for each filter the call
\* applied, hence for each filter that removed a record, none for a filter it did
\* not apply, nothing else, and the descriptions stand in the order of the
\* pipeline: transaction type (explicit or auto-detected), max price, min price,
\* rooms, near schools, near medical, parking, elevator, balcony
C26_FiltersDescribed ==
    Returned =>
       LET slots == [i \in 1..Len(result.filters) |-> SlotsOf(i)]
       IN
       /\ \A i \in 1..Len(slots) : Cardinality(slots[i]) = 1
       /\ \A i \in 1..(Len(slots) - 1) :
             \A k \in slots[i], l \in slots[i + 1] : k < l
       /\ UNION Range(slots) = AppliedSlots
       /\ result.filters = <<>> /\ WholePool => Len(Page) = Len(properties_df)

\* C26 witness: a call that applied the transaction filter, a price bound and a
\* feature filter, and lost a record to them
C26_Witness ==
    /\ Returned
    /\ Len(result.filters) = 3
    /\ SlotEntries(1) = {1}
    /\ SlotEntries(2) \cup SlotEntries(3) = {2}
    /\ SlotEntries(7) \cup SlotEntries(8) \cup SlotEntries(9) = {3}
    /\ Len(FilteredPool) < Len(properties_df)

\* the geodesic distance, in millimetres, from the call's coordinate to a returned
\* entry
TrueDistance(e) ==
    geodesic_amenity(nearest.property_coords, nearest.amenity_type)[CatalogIndex(e)]

\* ceil(num / den) for positive den
CeilDiv(num, den) == (num + den - 1) \div den

\* C27: the walking time reported for an amenity at distance d km is
\* ceil(d / 4.5 * 60) minutes, plus the terrain penalty of 3 minutes per km, in
\* whole minutes, when d > 0.5 km and nothing otherwise
C27_WalkingTimeCeil ==
    NearestReturned =>
       \A p \in 1..Len(nearest.entries) :
          LET mm == TrueDistance(nearest.entries[p])
          IN nearest.entries[p].walk_time_min =
                CeilDiv(mm, 75000) + (IF mm > 500000 THEN (3 * mm) \div 1000000 ELSE 0)

\* the rating a tier is reported as
TierRating(tier) ==
    CASE tier = "excellent" -> "Excellent - Very close"
      [] tier = "very good" -> "Very Good - Walking distance"
      [] tier = "good" -> "Good - Short commute"
      [] tier = "fair" -> "Fair - Longer commute"

\* the tier rule for a distance in millimetres and the rating given to it
TierRule(mm, r) ==
    /\ r = TierRating("excellent") <=> mm < 300000
    /\ r = TierRating("very good") <=> (300000 <= mm /\ mm < 800000)
    /\ r = TierRating("good") <=> (800000 <= mm /\ mm < 1500000)
    /\ r = TierRating("fair") <=> mm >= 1500000

\* C28: an amenity is rated excellent exactly when its distance is below 0.3 km,
\* very good from 0.3 to below 0.8, good from 0.8 to below 1.5, and fair from
\* 1.5 km on; a distance exactly on a boundary belongs to the farther tier
C28_AccessibilityTiers ==
    /\ pc = "rated" => TierRule(rating.distance, rating.accessibility_rating)
    /\ NearestReturned =>
          \A p \in 1..Len(nearest.entries) :
             TierRule(TrueDistance(nearest.entries[p]),
                      nearest.entries[p].accessibility_rating)

\* C28 witness: a distance of exactly 0.3 km has been rated, and rated very good
C28_Witness ==
    /\ pc = "rated"
    /\ rating.distance = 300000
    /\ rating.accessibility_rating = TierRating("very good")

\* the call that returned was given one of the keys tools/list advertises and the
\* search never reads
UnreadGiven == kwargs.property_type.has \/ kwargs.neighborhoods.has \/ kwargs.sort_by.has

\* the same arguments without those keys
WithoutUnread(kw) ==
    [kw EXCEPT !.property_type = Absent(""), !.neighborhoods = Absent(<<>>),
               !.sort_by = Absent("")]

\* what a caller sees of a search: the properties in their order with their scores,
\* the statistics, the count and the filter list
Observed(r) ==
    [properties |-> r.properties, market_stats |-> r.market_stats,
     total_found |-> r.total_found, filters |-> r.filters,
     mentioned_amenities |-> r.intent_data.mentioned_amenities,
     format_mode |-> r.intent_data.format_mode]

\* every outcome a search with the given arguments can have, as a caller sees it
Outcomes(kw) == {Observed(r) : r \in search_properties(kw, properties_df, clock)}

\* C29: sort_by, neighborhoods and property_type have no effect on a search: a
\* call given any of them returns what the call without them returns, the same
\* properties in the same order with the same scores and statistics, the order
\* being by descending match score whatever sort_by asks for
C29_UnreadArgumentsIgnored ==
    (Returned /\ UnreadGiven) =>
       /\ Observed(result) \in Outcomes(WithoutUnread(kwargs))
       /\ Outcomes(kwargs) = Outcomes(WithoutUnread(kwargs))
       /\ \A j \in 1..(Len(Page) - 1) :
             Page[j].madlan_match_score >= Page[j + 1].madlan_match_score

\* C29 witness: a call asked for sort_by = "price_low", a property type and a
\* neighbourhood, and returned a dearer record ahead of a cheaper one
C29_Witness ==
    /\ Returned
    /\ kwargs.sort_by = Given("price_low")
    /\ kwargs.property_type.has /\ kwargs.neighborhoods.has
    /\ Len(Page) >= 2
    /\ Page[1].property_price > Page[2].property_price

(***************************************************************************)
(* Properties of the dispatcher (continued).                                *)
(***************************************************************************)
\* what a server that has handled nothing yet answers to a line, on the dataset
\* and the clock of this run
FreshAnswers(l) == LineOutcomes(l, properties_df, data_loaded, clock)

\* the line was handled after other lines
HasHistory(i) == i >= 2

\* a line that is malformed, or fails inside the dispatcher
Failed(l) == l.kind \in {"malformed", "value"} \/ FailsInHandler(l)

\* C30: the dispatcher keeps no session state: whatever lines were handled before
\* it, a line is answered as a server that has handled nothing answers it on the
\* same dataset and clock; in particular a tools/call is answered the same with
\* or without an initialize or notifications/initialized before it, and after
\* lines that were malformed or failed.  The response is looked at when it is
\* about to be printed.
C30_NoSessionState ==
    (pc = "write" /\ HasHistory(Len(inp))) =>
        response \in FreshAnswers(inp[Len(inp)])

\* C30 witness: a search sent as the second line, after a line that was malformed
\* or failed, has been answered with a result
C30_Witness ==
    /\ Len(inp) = 2 /\ Len(out) = 2
    /\ Failed(inp[1])
    /\ SearchCalled(inp[2], data_loaded)
    /\ out[2].req = 2 /\ out[2].resp.kind = "result"

====
